---- MODULE Spec2Model ----
(***************************************************************************)
(* A model of the lti-tool LTI 1.3 toolkit: the nonce store of the three   *)
(* storage backends (MemoryStorage, MySqlStorage, DynamoDbStorage), the    *)
(* login and launch-verification protocol of LTITool, and the launch route *)
(* that persists a session.                                                *)
(*                                                                         *)
(* Time is counted in units of 300 seconds, so the default expiration of   *)
(* 600 seconds is 2 units.  A random UUID is modelled as a value that was  *)
(* never drawn before.  jose's jwtVerify and zod's parse are libraries:    *)
(* what they answer for a token is an input of the step that calls them.   *)
(***************************************************************************)
EXTENDS Integers, FiniteSets, Sequences, TLC

\* ------------------------------------------------------------------ bounds
MaxTime == 2
MaxNonces == 2
MaxCallers == 2
MaxTokens == 2
MaxRoles == 2

\* ------------------------------------------------------- program constants
\* `?? 600` seconds, in units of 300 seconds
DefaultNonceExpiration == 2
DefaultStateExpiration == 2
\* cacheConfig: LAUNCH_CONFIG_CACHE ttl 15 minutes, SESSION_CACHE ttl 5 minutes
LaunchConfigCacheTtl == 3
SessionCacheTtl == 1
\* cacheConfig: SESSION_TTL, one day
SessionTtl == 288
\* initiateDynamicRegistration: expiresAt 15 minutes from now
RegistrationSessionTtl == 3

Backends == {"memory", "mysql", "dynamodb"}
NonceIds == 1..MaxNonces
Callers == 1..MaxCallers
Times == 0..MaxTime
Tokens == 1..MaxTokens

\* what an administrator may configure instead of the defaults
\* security.nonceExpirationSeconds and security.stateExpirationSeconds: the
\* defaults, and a deployment with a shorter nonce life and a longer state life
SecurityConfigs ==
    {[nonce |-> DefaultNonceExpiration, state |-> DefaultStateExpiration],
     [nonce |-> DefaultNonceExpiration - 1, state |-> DefaultStateExpiration + 1]}
LoginRequests == {[client_id |-> "c1", lti_deployment_id |-> "d1"],
                  [client_id |-> "c2", lti_deployment_id |-> "d1"]}

\* the platform registered in storage, and values no registration has
Issuer == "p1"
ClientIds == {"c1", "c2"}
DeploymentIds == {"d1", "d2"}
RegisteredClients ==
    {[iss |-> Issuer, clientId |-> "c1", jwksUrl |-> "jwks1", deployments |-> {"d1"}]}

VARIABLES
    backend,        \* which LTIStorage implementation config.storage is
    now,            \* Date.now()
    horizon,        \* the last instant the specification explores
    call,           \* per caller: the storage lookup it has in flight
    nonceExpiration,\* nonceExpirationSeconds (LTIConfig.security for memory, storage config otherwise)
    stateExpiration,\* LTIConfig.security.stateExpirationSeconds
    clients,        \* storage: the registered clients with their deployments
    launchConfigTable, \* DynamoDbStorage's launchConfigTable
    launchConfigCache, \* LAUNCH_CONFIG_CACHE of MySqlStorage / DynamoDbStorage
    nonces,         \* the nonce store: rows [nonce, expiresAt], nonce is the key
    sessions,       \* the session store
    sessionCache,   \* SESSION_CACHE of MySqlStorage / DynamoDbStorage
    jwksCache,      \* LTITool.jwksCache: the jwksUrls a key-set resolver exists for
    stateTokens,    \* the state JWTs handleLogin has returned
    registrationSessions, \* storage: the dynamic registration sessions, token is the key
    registered,     \* history: per token, whether it was issued, and the registrations posted
    payload,        \* the validated LTI13JwtPayload handed to createSession
    built,          \* what createSession made of it
    clock,          \* Date.now() as TokenService reads it, in half seconds
    assertion,      \* the client assertion createClientAssertion is building
    response,       \* what the token endpoint answered
    bearer,         \* how getBearerToken ended
    otherClients,   \* a second storage instance of the same type: its clients
    otherLaunchConfigTable, \* the second instance's launchConfigTable
    memoryClients,  \* MemoryStorage.clients: internal id -> client with its deployments
    deployments,    \* MemoryStorage.deployments: composite key -> deployment
    clientLookup,   \* MemoryStorage.clientLookup: issuer#clientId -> internal id
    uuids,          \* how many values crypto.randomUUID has handed out
    fetched,        \* what the last MemoryStorage.getDeployment returned
    stored,         \* history: nonces handed to storeNonce, with the expiresAt given
    pc,             \* per caller: where it is
    tok,            \* per caller: the id_token it submitted
    st,             \* per caller: the state it submitted
    lc,             \* per caller: the launch config step 2 resolved
    arg,            \* per caller: the nonce it validates (0: none yet)
    res,            \* per caller: what validateNonce returned
    outcome,        \* per caller: how verifyLaunch / the launch route ended
    trace,          \* per caller, history: the checks and storage calls it executed
    replay,         \* per caller, history: it submitted a pair accepted before
    accepted,       \* history: the (idToken, state) pairs verifyLaunch accepted
    everTrue        \* history: nonces some validateNonce call returned true for

storeVars ==
    <<backend, now, horizon, nonceExpiration, stateExpiration, clients, launchConfigTable, call>>
sessVars == <<payload, built>>
tokVars == <<clock, assertion, response, bearer>>
instVars == <<otherClients, otherLaunchConfigTable>>
memVars == <<memoryClients, deployments, clientLookup, uuids, fetched>>
svcVars == <<sessVars, tokVars, instVars, memVars>>
regVars == <<registrationSessions, registered, svcVars>>
toolVars == <<launchConfigCache, sessions, sessionCache, jwksCache, stateTokens, regVars>>
launchVars == <<tok, st, lc, outcome, trace, replay, accepted>>
vars == <<storeVars, toolVars, launchVars, nonces, stored, pc, arg, res, everTrue>>

\* ------------------------------------------------------------ nonce store
HasRow(tbl, n) == \E row \in tbl : row.nonce = n
RowOf(tbl, n) == CHOOSE row \in tbl : row.nonce = n
WithoutRow(tbl, n) == {row \in tbl : row.nonce # n}

\* A storeNonce whose write has not taken place when handleLogin returns.
MemoryStoreNonceLate(tbl, n, expiresAt) == tbl

\* MemoryStorage.storeNonce: this.nonces.set(nonce, expiresAt)
MemoryStoreNonce(tbl, n, expiresAt) ==
    WithoutRow(tbl, n) \cup {[nonce |-> n, expiresAt |-> expiresAt]}

\* MySqlStorage.storeNonce and DynamoDbStorage.storeNonce: a no-op
NoopStoreNonce(tbl, n, expiresAt) == tbl

storeNonce(b, tbl, n, expiresAt) ==
    IF b = "memory" THEN MemoryStoreNonce(tbl, n, expiresAt)
    ELSE NoopStoreNonce(tbl, n, expiresAt)

\* A validateNonce that takes what it does not know for new.
MemoryValidateUnknown(tbl, n, t) ==
    IF ~HasRow(tbl, n) THEN [ok |-> TRUE, tbl |-> tbl]
    ELSE IF RowOf(tbl, n).expiresAt < t THEN [ok |-> FALSE, tbl |-> WithoutRow(tbl, n)]
    ELSE [ok |-> TRUE, tbl |-> WithoutRow(tbl, n)]

\* MemoryStorage.validateNonce, a function without an await: one atomic step.
\* Not found: false.  Expired: deleted, false.  Otherwise deleted, true.
MemoryValidateNonce(tbl, n, t) ==
    IF ~HasRow(tbl, n) THEN [ok |-> FALSE, tbl |-> tbl]
    ELSE IF RowOf(tbl, n).expiresAt < t THEN [ok |-> FALSE, tbl |-> WithoutRow(tbl, n)]
    ELSE [ok |-> TRUE, tbl |-> WithoutRow(tbl, n)]

\* MySqlStorage.validateNonce, first statement:
\* SELECT ... WHERE nonce = ? AND expiresAt > NOW() LIMIT 1
MySqlSelectNonce(tbl, n, t) == \E row \in tbl : row.nonce = n /\ row.expiresAt > t

\* An INSERT ... ON DUPLICATE KEY UPDATE in place of the INSERT.
MySqlUpsertNonce(tbl, n, t, exp) ==
    [ok |-> TRUE, tbl |-> WithoutRow(tbl, n) \cup {[nonce |-> n, expiresAt |-> t + exp]}]

\* MySqlStorage.validateNonce, second statement: INSERT; nonce is the primary
\* key, so a row of any age makes the insert fail with ER_DUP_ENTRY.
MySqlInsertNonce(tbl, n, t, exp) ==
    IF HasRow(tbl, n) THEN [ok |-> FALSE, tbl |-> tbl]
    ELSE [ok |-> TRUE, tbl |-> tbl \cup {[nonce |-> n, expiresAt |-> t + exp]}]

\* DynamoDbStorage.validateNonce: PutItem with attribute_not_exists(pk)
DynamoValidateNonce(tbl, n, t, exp) ==
    IF HasRow(tbl, n) THEN [ok |-> FALSE, tbl |-> tbl]
    ELSE [ok |-> TRUE, tbl |-> tbl \cup {[nonce |-> n, expiresAt |-> t + exp]}]

\* MySqlStorage.cleanup: DELETE FROM nonces WHERE expiresAt < now
MySqlCleanupNonces(tbl, t) == {row \in tbl : ~(row.expiresAt < t)}

\* ----------------------------------------------------------- launch config
\* `undefined`, and the cache's undefinedLaunchConfigValue
NoConfig == [iss |-> "none", clientId |-> "none", deploymentId |-> "none", jwksUrl |-> "none"]

ConfigOf(c, d) ==
    [iss |-> c.iss, clientId |-> c.clientId, deploymentId |-> d, jwksUrl |-> c.jwksUrl]

\* the launchConfigTable items saveLaunchConfig has written for the registered clients
ProjectLaunchConfigs(cl) == UNION {{ConfigOf(c, d) : d \in c.deployments} : c \in cl}

\* MemoryStorage.getLaunchConfig: clientLookup, then deployments.find; no fallback
MemoryGetLaunchConfig(cl, iss, clientId, dep) ==
    IF \E c \in cl : c.iss = iss /\ c.clientId = clientId /\ dep \in c.deployments
    THEN ConfigOf(CHOOSE c \in cl : c.iss = iss /\ c.clientId = clientId /\ dep \in c.deployments, dep)
    ELSE NoConfig

\* lru-cache with a ttl: set records when the entry goes stale, get answers
\* undefined for a key it does not hold or holds stale.  An expiry beyond the
\* last instant explored is recorded as the instant after it: every such
\* expiry answers every get alike.
CacheExpiryNever(time, ttl) == horizon + 1
CacheExpiry(time, ttl) == IF time + ttl > horizon THEN horizon + 1 ELSE time + ttl
CacheHas(cache, key, time) == \E e \in cache : e.key = key /\ ~(e.exp < time)
CacheGet(cache, key) == (CHOOSE e \in cache : e.key = key).val
CacheSet(cache, key, val, exp) ==
    {e \in cache : e.key # key} \cup {[key |-> key, val |-> val, exp |-> exp]}
CacheDelete(cache, key) == {e \in cache : e.key # key}
\* the entries a get still answers from at the given time
CacheLive(cache, time) == {e \in cache : ~(e.exp < time)}

\* MySqlStorage.getLaunchConfig: the cache, then clients INNER JOIN deployments,
\* then the same again for 'default'
\* reads: the queries sent to the database
RECURSIVE MySqlGetLaunchConfig(_, _, _, _, _, _)
MySqlGetLaunchConfig(cache, cl, iss, clientId, dep, time) ==
    LET key == <<iss, clientId, dep>>
        row == MemoryGetLaunchConfig(cl, iss, clientId, dep)
        exp == CacheExpiry(time, LaunchConfigCacheTtl)
    IN  IF CacheHas(cache, key, time)
        THEN [cfg |-> CacheGet(cache, key), cache |-> cache, reads |-> 0]
        ELSE IF row = NoConfig
             THEN IF dep # "default"
                  THEN LET out == MySqlGetLaunchConfig(cache, cl, iss, clientId, "default", time)
                       IN  [out EXCEPT !.reads = @ + 1]
                  ELSE [cfg |-> NoConfig, cache |-> CacheSet(cache, key, NoConfig, exp),
                        reads |-> 1]
             ELSE [cfg |-> row, cache |-> CacheSet(cache, key, row, exp), reads |-> 1]

DynamoGetItem(table, iss, clientId, dep) ==
    IF \E i \in table : i.iss = iss /\ i.clientId = clientId /\ i.deploymentId = dep
    THEN CHOOSE i \in table : i.iss = iss /\ i.clientId = clientId /\ i.deploymentId = dep
    ELSE NoConfig

\* DynamoDbStorage.getLaunchConfig: the cache, GetItem, GetItem of 'default'
DynamoGetLaunchConfig(cache, table, iss, clientId, dep, time) ==
    LET key == <<iss, clientId, dep>>
        exact == DynamoGetItem(table, iss, clientId, dep)
        again == exact = NoConfig /\ dep # "default"
        item == IF again THEN DynamoGetItem(table, iss, clientId, "default") ELSE exact
    IN  IF CacheHas(cache, key, time)
        THEN [cfg |-> CacheGet(cache, key), cache |-> cache, reads |-> 0]
        ELSE [cfg |-> item,
              cache |-> CacheSet(cache, key, item, CacheExpiry(time, LaunchConfigCacheTtl)),
              reads |-> IF again THEN 2 ELSE 1]

getLaunchConfig(b, cache, cl, table, iss, clientId, dep, time) ==
    IF b = "memory"
    THEN [cfg |-> MemoryGetLaunchConfig(cl, iss, clientId, dep), cache |-> cache, reads |-> 1]
    ELSE IF b = "mysql" THEN MySqlGetLaunchConfig(cache, cl, iss, clientId, dep, time)
    ELSE DynamoGetLaunchConfig(cache, table, iss, clientId, dep, time)

\* ---------------------------------------------------------------- sessions
\* `undefined`, and the cache's undefinedSessionValue
\* A session stands for its row: expiresAt is the column of MySqlStorage's
\* sessions table and the ttl attribute of DynamoDbStorage's item.
NoSession == [id |-> 0, nonce |-> 0, expiresAt |-> 0]

HasSession(tbl, id) == \E x \in tbl : x.id = id
SessionOf(tbl, id) == IF HasSession(tbl, id) THEN CHOOSE x \in tbl : x.id = id ELSE NoSession

\* Date.now() + SESSION_TTL.  MemoryStorage records no expiry: its session
\* expires at no instant.  An expiry beyond the last instant explored is
\* recorded as the instant after it.
SessionExpiry(b, time) ==
    IF b = "memory" \/ time + SessionTtl > horizon THEN horizon + 1 ELSE time + SessionTtl

\* addSession: MemoryStorage sets its map; MySqlStorage and DynamoDbStorage write
\* the row or item with its expiry and set SESSION_CACHE
addSession(b, tbl, cache, session, time) ==
    LET row == [id |-> session.id, nonce |-> session.nonce,
                expiresAt |-> SessionExpiry(b, time)]
    IN  [tbl |-> {x \in tbl : x.id # session.id} \cup {row},
         cache |-> IF b = "memory" THEN cache
                   ELSE CacheSet(cache, session.id, row, CacheExpiry(time, SessionCacheTtl))]

\* MySqlStorage.getSession's query: WHERE id = ? AND expiresAt > now
MySqlSelectSession(tbl, id, time) ==
    IF \E x \in tbl : x.id = id /\ x.expiresAt > time THEN SessionOf(tbl, id) ELSE NoSession

\* getSession: MemoryStorage reads its map; MySqlStorage and DynamoDbStorage
\* answer from SESSION_CACHE when it holds the id, else read the store (MySQL
\* the unexpired row, DynamoDB the item) and cache what they found, the absence
\* included
getSession(b, tbl, cache, id, time) ==
    LET found == IF b = "mysql" THEN MySqlSelectSession(tbl, id, time) ELSE SessionOf(tbl, id)
    IN  IF b = "memory" THEN [val |-> found, cache |-> cache, reads |-> 1]
        ELSE IF CacheHas(cache, id, time)
        THEN [val |-> CacheGet(cache, id), cache |-> cache, reads |-> 0]
        ELSE [val |-> found,
              cache |-> CacheSet(cache, id, found, CacheExpiry(time, SessionCacheTtl)),
              reads |-> 1]

\* MySqlStorage.cleanup: DELETE FROM sessions WHERE expiresAt < now, and the same
\* for registration_sessions
MySqlCleanupSessions(tbl, t) == {x \in tbl : ~(x.expiresAt < t)}

\* ------------------------------------------------------------ createSession
\* Strings that are searched are sequences of characters.
\* String.prototype.includes
includes(str, w) ==
    \E i \in 1..(Len(str) - Len(w) + 1) : SubSeq(str, i, i + Len(w) - 1) = w

\* ROLE_MAPPINGS, in the order of Object.entries
ROLE_MAPPINGS ==
    <<[key |-> <<"I", "n", "s", "t", "r", "u", "c", "t", "o", "r">>,
       value |-> "instructor"],
      [key |-> <<"L", "e", "a", "r", "n", "e", "r">>,
       value |-> "student"],
      [key |-> <<"A", "d", "m", "i", "n", "i", "s", "t", "r", "a", "t", "o", "r">>,
       value |-> "admin"],
      [key |-> <<"C", "o", "n", "t", "e", "n", "t", "D", "e", "v", "e", "l", "o", "p", "e", "r">>,
       value |-> "content-developer"],
      [key |-> <<"M", "e", "m", "b", "e", "r">>,
       value |-> "member"]>>

\* raw role strings of the roles claim (the vocabulary prefix shortened)
RawRoles ==
    {<<"I", "n", "s", "t", "r", "u", "c", "t", "o", "r">>,
     <<"m", "e", "m", "b", "e", "r", "s", "h", "i", "p", "#", "L", "e", "a", "r", "n", "e", "r">>,
     <<"p", "e", "r", "s", "o", "n", "#", "A", "d", "m", "i", "n", "i", "s", "t", "r", "a", "t", "o", "r">>,
     <<"m", "e", "m", "b", "e", "r", "s", "h", "i", "p", "#", "C", "o", "n", "t", "e", "n", "t", "D", "e", "v", "e", "l", "o", "p", "e", "r">>,
     <<"m", "e", "m", "b", "e", "r", "s", "h", "i", "p", "#", "M", "e", "m", "b", "e", "r">>,
     <<"m", "e", "m", "b", "e", "r", "s", "h", "i", "p", "#", "M", "e", "n", "t", "o", "r">>,
     <<"I", "n", "s", "t", "r", "u", "c", "t", "o", "r", "#", "T", "e", "a", "c", "h", "i", "n", "g", "A", "s", "s", "i", "s", "t", "a", "n", "t">>}

\* An optional string of a claim; JavaScript's || takes '' for absent.
Undefined == [has |-> FALSE, v |-> ""]
Str(v) == [has |-> TRUE, v |-> v]
Falsy(x) == ~x.has \/ x.v = ""
JsOr(x, y) == IF Falsy(x) THEN y ELSE x

\* The context claim: absent, or an id with optional label and title.
NoContext == [has |-> FALSE, id |-> Undefined, label |-> Undefined, title |-> Undefined]
ContextClaims ==
    {NoContext} \cup
    [has : {TRUE}, id : {Str(""), Str("ctx")}, label : {Undefined, Str(""), Str("Lbl")},
     title : {Undefined, Str(""), Str("Ttl")}]

\* The AGS endpoint claim: absent, without lineitem, with a lineitem that is a
\* URL, with a lineitem that is a string but no URL (the schema asks for z.string()).
AgsClaims == {"absent", "noLineitem", "url", "notUrl"}

\* The validated payloads, as far as createSession reads them.
ValidatedPayloads ==
    [roles : UNION {[1..n -> RawRoles] : n \in 0..MaxRoles}, context : ContextClaims,
     ags : AgsClaims, nrps : BOOLEAN, dl : BOOLEAN]
NoPayload == [roles |-> <<>>, context |-> NoContext, ags |-> "absent", nrps |-> FALSE, dl |-> FALSE]
NotBuilt == [state |-> "none"]

\* ------------------------------------------------------------ TokenService
\* exp: Math.floor(Date.now() / 1000) + 300
AssertionLifetime == 300
ClockPerSecond == 2
TokenClients == {"c1", "c2"}
TokenUrls == {"token1", "token2"}
NoAssertion == [state |-> "none", iss |-> "", sub |-> "", aud |-> "", iat |-> 0, exp |-> 0]
NoResponse == [status |-> 0, body |-> "none"]

\* What the token endpoint can answer: a status, and a body that is no JSON, the
\* JSON null, a JSON object without access_token, one with an empty
\* access_token, or one with an access_token.
TokenResponses ==
    [status : {200, 201, 400, 401, 502},
     body : {"notJson", "null", "noToken", "emptyToken", "token"}]

\* Response.ok
ResponseOk(resp) == resp.status \in 200..299

\* Math.floor(Date.now() / 1000)
Seconds(t) == t \div ClockPerSecond

\* getBearerToken once fetch has answered: response.json() rejects on a body
\* that is no JSON; tokenData.access_token of null is a TypeError.
ReadTokenResponse(resp) ==
    IF resp.body = "notJson" THEN "SyntaxError"
    ELSE IF ~ResponseOk(resp) THEN "TokenRequestFailed"
    ELSE IF resp.body = "null" THEN "TypeError"
    ELSE IF resp.body \in {"noToken", "emptyToken"} THEN "TokenResponseMalformed"
    ELSE "access_token"

\* new MemoryStorage(): empty maps
NothingFound == [state |-> "none"]
EmptyMemory ==
    /\ memoryClients = {} /\ deployments = {} /\ clientLookup = {}
    /\ uuids = 0 /\ fetched = NothingFound

NothingBuilt ==
    /\ payload = NoPayload /\ built = NotBuilt
    /\ clock = 0 /\ assertion = NoAssertion /\ response = NoResponse /\ bearer = "none"
    /\ otherClients = {} /\ otherLaunchConfigTable = {}
    /\ EmptyMemory

\* roles.some((role) => role.includes(pattern))
hasRole(roles, pattern) == \E i \in 1..Len(roles) : includes(roles[i], pattern)

\* Set.prototype.add, the set kept in insertion order
SetAdd(seq, v) == IF \E i \in 1..Len(seq) : seq[i] = v THEN seq ELSE Append(seq, v)

\* the inner loop of simplifyRoles over ROLE_MAPPINGS from entry k on
RECURSIVE SimplifyRole(_, _, _)
SimplifyRole(simplified, role, k) ==
    IF k > Len(ROLE_MAPPINGS) THEN simplified
    ELSE SimplifyRole(IF includes(role, ROLE_MAPPINGS[k].key)
                      THEN SetAdd(simplified, ROLE_MAPPINGS[k].value) ELSE simplified,
                      role, k + 1)

\* the outer loop of simplifyRoles from role i on
RECURSIVE SimplifyFrom(_, _, _)
SimplifyFrom(simplified, roles, i) ==
    IF i > Len(roles) THEN simplified
    ELSE SimplifyFrom(SimplifyRole(simplified, roles[i], 1), roles, i + 1)

\* A simplifyRoles that collects into an array.
simplifyRolesArray(roles) ==
    IF Len(roles) = 0 THEN <<>>
    ELSE SimplifyFrom(<<>>, SubSeq(roles, 1, 1), 1)
             \o SimplifyFrom(<<>>, SubSeq(roles, 2, Len(roles)), 1)

\* simplifyRoles: [...simplified]
simplifyRoles(roles) == SimplifyFrom(<<>>, roles, 1)

\* context: { id: context?.id || '', label: context?.label || context?.id || '',
\* title: context?.title || '' }
SessionContext(context) ==
    [id |-> JsOr(context.id, Str("")).v,
     label |-> JsOr(JsOr(context.label, context.id), Str("")).v,
     title |-> JsOr(context.title, Str("")).v]

\* The keys put into services, every one with an object for its value.
ServiceKeys(p) ==
    {k \in {"ags", "nrps", "deepLinking"} :
        \/ k = "ags" /\ p.ags # "absent"
        \/ k = "nrps" /\ p.nrps
        \/ k = "deepLinking" /\ p.dl}

\* A createSession that always returns a services object.
SessionServicesAlways(p) == [has |-> TRUE, keys |-> ServiceKeys(p)]

\* services: Object.keys(services).length > 0 ? services : undefined
SessionServices(p) == [has |-> ServiceKeys(p) # {}, keys |-> ServiceKeys(p)]

\* A createSession whose role flags look for the simplified names in the raw roles.
RoleFlagsSimplified(roles) ==
    [isInstructor |-> hasRole(roles, <<"i", "n", "s", "t", "r", "u", "c", "t", "o", "r">>),
     isStudent |-> hasRole(roles, <<"s", "t", "u", "d", "e", "n", "t">>),
     isAdmin |-> hasRole(roles, <<"a", "d", "m", "i", "n">>)]

\* isInstructor, isStudent, isAdmin
RoleFlags(roles) ==
    [isInstructor |-> hasRole(roles, <<"I", "n", "s", "t", "r", "u", "c", "t", "o", "r">>),
     isStudent |-> hasRole(roles, <<"L", "e", "a", "r", "n", "e", "r">>),
     isAdmin |-> hasRole(roles, <<"A", "d", "m", "i", "n", "i", "s", "t", "r", "a", "t", "o", "r">>)]

\* createSession(lti13JwtPayload); new URL(agsEndpoint.lineitem) throws on a
\* lineitem that is no URL, and then no session is returned.
createSession(p) ==
    IF p.ags = "notUrl" THEN [state |-> "threw"]
    ELSE [state |-> "built",
          roles |-> simplifyRoles(p.roles),
          flags |-> RoleFlags(p.roles),
          context |-> SessionContext(p.context),
          services |-> SessionServices(p),
          isAssignmentAndGradesAvailable |-> p.ags # "absent",
          isDeepLinkingAvailable |-> p.dl,
          isNameAndRolesAvailable |-> p.nrps]

\* ------------------------------------------------------------------ tokens
\* An id_token as verifyLaunch reads it.  iss "none": no iss claim.  audArray: aud
\* is the array [aud].  sig: what jwtVerify finds against the platform's key set.
\* payload: what LTI13JwtPayloadSchema.parse finds, and whether target_link_uri,
\* a z.string(), is a URL.  nonce 0: a nonce no login of this tool has issued.
Payloads == {"invalid", "valid", "validBadTarget"}
AllIdTokens ==
    [iss : {Issuer, "none"}, aud : ClientIds, audArray : BOOLEAN, dep : DeploymentIds,
     sig : BOOLEAN, payload : Payloads, nonce : NonceIds \cup {0}]
GoodToken(n) ==
    [iss |-> Issuer, aud |-> "c1", audArray |-> FALSE, dep |-> "d1",
     sig |-> TRUE, payload |-> "valid", nonce |-> n]
Differences(t) ==
    {f \in {"iss", "aud", "audArray", "dep", "sig", "payload"} : t[f] # GoodToken(0)[f]}

\* The tokens submitted: the good launch, those that differ from it in one
\* claim, and those that differ in two claims that consecutive checks of
\* verifyLaunch read.  verifyLaunch reads the nonce of a token only after its
\* signature has been verified, so the tokens that fail before carry the one
\* nonce 0.
ReachesState(t) == Differences(t) \subseteq {"audArray", "payload"}
SubmittedDifferences ==
    {{}, {"iss"}, {"aud"}, {"dep"}, {"sig"}, {"payload"}, {"audArray"},
     {"iss", "aud"}, {"aud", "sig"}, {"dep", "sig"}, {"payload", "audArray"}}
IdTokens ==
    {t \in AllIdTokens : /\ Differences(t) \in SubmittedDifferences
                         /\ ~ReachesState(t) => t.nonce = 0}

\* `${clientId}` of unverified.aud: a one-element array prints as its element
AudString(t) == t.aud

\* No audience comparison at all.
NeverMismatch(t, clientId) == FALSE

\* validated.aud !== launchConfig.clientId
AudMismatch(t, clientId) == t.audArray \/ t.aud # clientId

\* A jwtVerify of the state that does not read exp.
StateVerifiesForever(tokens, s, t) == \E x \in tokens : x.nonce = s

\* jwtVerify(state, stateSecret): a state handleLogin signed, its exp not yet reached.
\* State 0 stands for a state that was not signed with stateSecret.
StateVerifies(tokens, s, t) == \E x \in tokens : x.nonce = s /\ x.exp > t

\* ------------------------------------------------------------ verifyLaunch
\* A step 3 that creates a resolver without looking into jwksCache.
resolveKeySetUncached(jwks, url) == [jwks |-> jwks \cup {url}, created |-> {url}]

\* verifyLaunch step 3 up to jwtVerify, which awaits nothing: the resolver of
\* jwksUrl is taken from jwksCache, or created and put there.
resolveKeySet(jwks, url) ==
    [jwks |-> jwks \cup {url}, created |-> IF url \in jwks THEN {} ELSE {url}]

Failed(r) == outcome[r] \notin {"none", "redirect"}

\* A verifyLaunch that resolves the issuer's key set before it looks for the launch config.
VerifyIdTokenKeysFirst(b, cache, cl, table, jwks, t, time) ==
    LET out == getLaunchConfig(b, cache, cl, table, t.iss, AudString(t), t.dep, time)
    IN  IF t.iss = "none"
        THEN [outcome |-> "NoIssuer", trace |-> <<"decode">>,
              cfg |-> NoConfig, cache |-> cache, jwks |-> jwks]
        ELSE IF out.cfg = NoConfig
        THEN [outcome |-> "ConfigurationError", trace |-> <<"decode", "getLaunchConfig">>,
              cfg |-> NoConfig, cache |-> out.cache, jwks |-> jwks \cup {t.iss}]
        ELSE [outcome |-> IF t.sig THEN "none" ELSE "InvalidSignature",
              trace |-> <<"decode", "getLaunchConfig", "jwtVerify">>,
              cfg |-> out.cfg, cache |-> out.cache, jwks |-> jwks \cup {t.iss}]

\* verifyLaunch steps 1 to 3: decodeJwt and the issuer, getValidLaunchConfig with
\* the unverified aud and deployment_id, the key set of launchConfig.jwksUrl
\* taken from or put into jwksCache, jwtVerify.
VerifyIdToken(b, cache, cl, table, jwks, t, time) ==
    LET out == getLaunchConfig(b, cache, cl, table, t.iss, AudString(t), t.dep, time)
    IN  IF t.iss = "none"
        THEN [outcome |-> "NoIssuer", trace |-> <<"decode">>,
              cfg |-> NoConfig, cache |-> cache, jwks |-> jwks]
        ELSE IF out.cfg = NoConfig
        THEN [outcome |-> "ConfigurationError", trace |-> <<"decode", "getLaunchConfig">>,
              cfg |-> NoConfig, cache |-> out.cache, jwks |-> jwks]
        ELSE [outcome |-> IF t.sig THEN "none" ELSE "InvalidSignature",
              trace |-> <<"decode", "getLaunchConfig", "jwtVerify">>,
              cfg |-> out.cfg, cache |-> out.cache,
              jwks |-> resolveKeySet(jwks, out.cfg.jwksUrl).jwks]

\* Steps 4 to 7 with the audience compared before the payload is parsed.
VerifyClaimsAudFirst(t, s, cfg, tokens, time) ==
    IF ~StateVerifies(tokens, s, time)
    THEN [outcome |-> "InvalidState", trace |-> <<"state">>]
    ELSE IF t.audArray \/ t.aud # cfg.clientId
    THEN [outcome |-> "ClientMismatch", trace |-> <<"state", "aud">>]
    ELSE IF t.payload = "invalid"
    THEN [outcome |-> "SchemaValidationError", trace |-> <<"state", "aud", "schema">>]
    ELSE IF s # t.nonce
    THEN [outcome |-> "NonceMismatch", trace |-> <<"state", "aud", "schema", "nonceMatch">>]
    ELSE [outcome |-> "none",
          trace |-> <<"state", "aud", "schema", "nonceMatch", "validateNonce">>]

\* Steps 4 to 7 without the nonce comparison of step 7.
VerifyClaimsNoCrossCheck(t, s, cfg, tokens, time) ==
    IF ~StateVerifies(tokens, s, time)
    THEN [outcome |-> "InvalidState", trace |-> <<"state">>]
    ELSE IF t.payload = "invalid"
    THEN [outcome |-> "SchemaValidationError", trace |-> <<"state", "schema">>]
    ELSE IF t.audArray \/ t.aud # cfg.clientId
    THEN [outcome |-> "ClientMismatch", trace |-> <<"state", "schema", "aud">>]
    ELSE [outcome |-> "none",
          trace |-> <<"state", "schema", "aud", "nonceMatch", "validateNonce">>]

\* Steps 4 to 7 with the nonce consumed whatever the payload is.
VerifyClaimsNoSchema(t, s, cfg, tokens, time) ==
    IF ~StateVerifies(tokens, s, time)
    THEN [outcome |-> "InvalidState", trace |-> <<"state">>]
    ELSE IF t.audArray \/ t.aud # cfg.clientId
    THEN [outcome |-> "ClientMismatch", trace |-> <<"state", "schema", "aud">>]
    ELSE IF s # t.nonce
    THEN [outcome |-> "NonceMismatch", trace |-> <<"state", "schema", "aud", "nonceMatch">>]
    ELSE [outcome |-> "none",
          trace |-> <<"state", "schema", "aud", "nonceMatch", "validateNonce">>]

\* verifyLaunch steps 4 to 7, none of which awaits storage: jwtVerify of the state,
\* LTI13JwtPayloadSchema.parse, the aud comparison, the nonce comparison.
VerifyClaims(t, s, cfg, tokens, time) ==
    IF ~StateVerifies(tokens, s, time)
    THEN [outcome |-> "InvalidState", trace |-> <<"state">>]
    ELSE IF t.payload = "invalid"
    THEN [outcome |-> "SchemaValidationError", trace |-> <<"state", "schema">>]
    ELSE IF AudMismatch(t, cfg.clientId)
    THEN [outcome |-> "ClientMismatch", trace |-> <<"state", "schema", "aud">>]
    ELSE IF s # t.nonce
    THEN [outcome |-> "NonceMismatch", trace |-> <<"state", "schema", "aud", "nonceMatch">>]
    ELSE [outcome |-> "none",
          trace |-> <<"state", "schema", "aud", "nonceMatch", "validateNonce">>]

\* verifyLaunch up to the call of storage.validateNonce
verifyLaunch(b, cache, cl, table, jwks, tokens, time, t, s) ==
    LET v == VerifyIdToken(b, cache, cl, table, jwks, t, time)
        w == VerifyClaims(t, s, v.cfg, tokens, time)
    IN  IF v.outcome # "none" THEN v
        ELSE [outcome |-> w.outcome, trace |-> v.trace \o w.trace,
              cfg |-> v.cfg, cache |-> v.cache, jwks |-> v.jwks]

\* ---------------------------------------------------------------- actions
\* no storage lookup in flight
NoCall == [op |-> "none", key |-> <<>>, val |-> NoConfig, reads |-> 0, write |-> {}]

Idle ==
    /\ pc = [r \in Callers |-> "idle"]
    /\ tok = [r \in Callers |-> GoodToken(0)]
    /\ st = [r \in Callers |-> 0]
    /\ lc = [r \in Callers |-> NoConfig]
    /\ arg = [r \in Callers |-> 0]
    /\ res = [r \in Callers |-> "none"]
    /\ outcome = [r \in Callers |-> "none"]
    /\ trace = [r \in Callers |-> <<>>]
    /\ replay = [r \in Callers |-> FALSE]
    /\ call = [r \in Callers |-> NoCall]

\* A storage with one registered platform, a tool that has served nothing yet.
InitStore ==
    /\ backend \in Backends
    /\ now = 0
    /\ clients = RegisteredClients
    /\ launchConfigTable = IF backend = "dynamodb" THEN ProjectLaunchConfigs(clients) ELSE {}
    /\ launchConfigCache = {}
    /\ nonces = {}
    /\ sessions = {}
    /\ sessionCache = {}
    /\ jwksCache = {}
    /\ stateTokens = {}
    /\ registrationSessions = {}
    /\ registered = [tk \in Tokens |-> [issued |-> FALSE, posted |-> 0]]
    /\ NothingBuilt
    /\ stored = {}
    /\ accepted = {}
    /\ everTrue = {}

\* A finished request answers before anything else moves: its response touches
\* nothing shared.
Quiet == \A r \in Callers : pc[r] # "done"

Init ==
    /\ InitStore
    /\ Idle
    /\ horizon = MaxTime
    /\ \E cfg \in SecurityConfigs :
          /\ nonceExpiration = cfg.nonce
          /\ stateExpiration = cfg.state

\* crypto.randomUUID(): a value never seen before; the least unused one stands for it
Used(n) == (\E s \in stored : s.nonce = n) \/ (\E r \in Callers : arg[r] = n)
Fresh(n) == ~Used(n) /\ \A m \in NonceIds : m < n => Used(m)

\* storage.storeNonce(nonce, expiresAt) with a fresh nonce, as handleLogin calls it
StoreNonce(n) ==
    /\ Fresh(n)
    /\ nonces' = storeNonce(backend, nonces, n, now + nonceExpiration)
    /\ stored' = stored \cup {[nonce |-> n, expiresAt |-> now + nonceExpiration]}
    /\ UNCHANGED <<storeVars, toolVars, launchVars, pc, arg, res, everTrue>>

\* a caller enters storage.validateNonce(n)
CallValidateNonce(r, n) ==
    /\ pc[r] = "idle"
    /\ \A q \in Callers : q < r => pc[q] # "idle"
    /\ pc' = [pc EXCEPT ![r] = "nonce"]
    /\ arg' = [arg EXCEPT ![r] = n]
    /\ UNCHANGED <<storeVars, toolVars, launchVars, nonces, stored, res, everTrue>>

Return(r, ok) ==
    /\ pc' = [pc EXCEPT ![r] = "returned"]
    /\ res' = [res EXCEPT ![r] = IF ok THEN "true" ELSE "false"]
    /\ everTrue' = IF ok THEN everTrue \cup {arg[r]} ELSE everTrue

ValidateNonceMemory(r) ==
    /\ Quiet
    /\ backend = "memory"
    /\ pc[r] = "nonce"
    /\ LET out == MemoryValidateNonce(nonces, arg[r], now)
       IN  /\ nonces' = out.tbl
           /\ Return(r, out.ok)
    /\ UNCHANGED <<storeVars, toolVars, launchVars, stored, arg>>

ValidateNonceMySqlSelect(r) ==
    /\ Quiet
    /\ backend = "mysql"
    /\ pc[r] = "nonce"
    /\ IF MySqlSelectNonce(nonces, arg[r], now)
       THEN Return(r, FALSE)
       ELSE /\ pc' = [pc EXCEPT ![r] = "insert"]
            /\ UNCHANGED <<res, everTrue>>
    /\ UNCHANGED <<storeVars, toolVars, launchVars, nonces, stored, arg>>

ValidateNonceMySqlInsert(r) ==
    /\ Quiet
    /\ backend = "mysql"
    /\ pc[r] = "insert"
    /\ LET out == MySqlInsertNonce(nonces, arg[r], now, nonceExpiration)
       IN  /\ nonces' = out.tbl
           /\ Return(r, out.ok)
    /\ UNCHANGED <<storeVars, toolVars, launchVars, stored, arg>>

ValidateNonceDynamo(r) ==
    /\ Quiet
    /\ backend = "dynamodb"
    /\ pc[r] = "nonce"
    /\ LET out == DynamoValidateNonce(nonces, arg[r], now, nonceExpiration)
       IN  /\ nonces' = out.tbl
           /\ Return(r, out.ok)
    /\ UNCHANGED <<storeVars, toolVars, launchVars, stored, arg>>

\* Time passes, while no storage lookup is in flight: a lookup takes far less
\* than one unit of time.  A cache entry gone stale answers every get like no
\* entry; it is kept no longer.
Tick ==
    /\ Quiet
    /\ \A r \in Callers : pc[r] # "lookup"
    /\ now < horizon
    /\ now' = now + 1
    /\ launchConfigCache' = CacheLive(launchConfigCache, now + 1)
    /\ sessionCache' = CacheLive(sessionCache, now + 1)
    /\ UNCHANGED <<backend, horizon, nonceExpiration, stateExpiration, clients,
                   launchConfigTable, call, sessions, jwksCache, stateTokens, regVars, launchVars,
                   nonces, stored, pc, arg, res, everTrue>>

\* MySqlStorage.cleanup(), called periodically by the operator: the expired
\* nonce rows and the expired session rows are deleted.
Cleanup ==
    /\ Quiet
    /\ backend = "mysql"
    /\ nonces' = MySqlCleanupNonces(nonces, now)
    /\ sessions' = MySqlCleanupSessions(sessions, now)
    /\ registrationSessions' = MySqlCleanupSessions(registrationSessions, now)
    /\ \/ nonces' # nonces
       \/ sessions' # sessions
       \/ registrationSessions' # registrationSessions
    /\ UNCHANGED <<storeVars, launchConfigCache, sessionCache, jwksCache, stateTokens,
                   registered, svcVars, launchVars, stored, pc, arg, res, everTrue>>

\* DynamoDB's TTL sweep deletes an item some time after its ttl attribute has passed
TtlDelete(n) ==
    /\ Quiet
    /\ backend = "dynamodb"
    /\ HasRow(nonces, n)
    /\ RowOf(nonces, n).expiresAt < now
    /\ nonces' = WithoutRow(nonces, n)
    /\ UNCHANGED <<storeVars, toolVars, launchVars, stored, pc, arg, res, everTrue>>

NextNonce ==
    \/ \E n \in NonceIds : StoreNonce(n)
    \/ \E r \in Callers, n \in NonceIds : CallValidateNonce(r, n)
    \/ \E r \in Callers : ValidateNonceMemory(r)
    \/ \E r \in Callers : ValidateNonceMySqlSelect(r)
    \/ \E r \in Callers : ValidateNonceMySqlInsert(r)
    \/ \E r \in Callers : ValidateNonceDynamo(r)
    \/ Tick
    \/ Cleanup
    \/ \E n \in NonceIds : TtlDelete(n)

SpecNonce == Init /\ [][NextNonce]_vars

\* The nonce store with what runs without a caller: time passes, the operator's
\* periodic cleanup() of MySqlStorage and DynamoDB's TTL sweep come round.
\* MemoryStorage has no timer and no sweep of its own.
SpecNonceFair ==
    /\ SpecNonce
    /\ WF_vars(Tick)
    /\ WF_vars(Cleanup)
    /\ \A n \in NonceIds : WF_vars(TtlDelete(n))

\* ------------------------------------------------------------ the protocol
IssuedNonces == {x.nonce : x \in stateTokens}

\* A handleLogin that redirects whether or not a launch config was found.
handleLoginUnchecked(b, tbl, cache, cl, table, tokens, q, n, time, nonceExp, stateExp) ==
    LET out == getLaunchConfig(b, cache, cl, table, Issuer, q.client_id,
                               q.lti_deployment_id, time)
    IN  [nonces |-> storeNonce(b, tbl, n, time + nonceExp),
         cache |-> out.cache,
         tokens |-> tokens \cup {[nonce |-> n, exp |-> time + stateExp]},
         outcome |-> "redirect"]

\* handleLogin for (iss, client_id, lti_deployment_id): the nonce is stored and
\* the state signed before getValidLaunchConfig; without a launch config it
\* throws 'No valid launch config found' and the state never leaves the tool.
handleLogin(b, tbl, cache, cl, table, tokens, q, n, time, nonceExp, stateExp) ==
    LET out == getLaunchConfig(b, cache, cl, table, Issuer, q.client_id,
                               q.lti_deployment_id, time)
    IN  [nonces |-> storeNonce(b, tbl, n, time + nonceExp),
         cache |-> out.cache,
         tokens |-> IF out.cfg = NoConfig THEN tokens
                    ELSE tokens \cup {[nonce |-> n, exp |-> time + stateExp]},
         outcome |-> IF out.cfg = NoConfig THEN "ConfigurationError" ELSE "redirect"]

\* POST /lti/login; the response is not followed
Login(q) ==
    \E n \in NonceIds :
        /\ Quiet
        /\ Fresh(n)
        /\ stored' = stored \cup {[nonce |-> n, expiresAt |-> now + nonceExpiration]}
        /\ LET out == handleLogin(backend, nonces, launchConfigCache, clients,
                                  launchConfigTable, stateTokens, q, n, now,
                                  nonceExpiration, stateExpiration)
           IN  /\ nonces' = out.nonces
               /\ launchConfigCache' = out.cache
               /\ stateTokens' = out.tokens
        /\ UNCHANGED <<storeVars, sessions, sessionCache, jwksCache, regVars, launchVars,
                       pc, arg, res, everTrue>>

IsReplay(t, s) == \E a \in accepted : a.tok = t /\ a.st = s

\* POST /lti/launch with (id_token, state): verifyLaunch steps 1 to 7 and the call
\* of storage.validateNonce.  Steps 1 to 7 await nothing another request writes
\* except the two caches, so they are taken in one step.  The state of a token
\* that fails before step 4 is never read: it is the one state 0.  This
\* specification serves one launch at a time; what concurrent launches race for
\* is validateNonce, whose interleavings SpecNonce explores.
Submit(r, t, s) ==
    /\ Quiet
    /\ pc[r] = "idle"
    /\ \A q \in Callers : pc[q] = "idle" /\ r <= q
    /\ t.nonce \in IssuedNonces \cup {0}
    /\ s \in IssuedNonces \cup {0}
    /\ ~ReachesState(t) => s = 0
    /\ \E v \in {verifyLaunch(backend, launchConfigCache, clients, launchConfigTable,
                               jwksCache, stateTokens, now, t, s)} :
          /\ launchConfigCache' = v.cache
          /\ jwksCache' = v.jwks
          /\ lc' = [lc EXCEPT ![r] = v.cfg]
          /\ trace' = [trace EXCEPT ![r] = v.trace]
          /\ outcome' = [outcome EXCEPT ![r] = v.outcome]
          /\ pc' = [pc EXCEPT ![r] = IF v.outcome = "none" THEN "nonce" ELSE "done"]
          /\ arg' = [arg EXCEPT ![r] = IF v.outcome = "none" THEN t.nonce ELSE @]
    /\ tok' = [tok EXCEPT ![r] = t]
    /\ st' = [st EXCEPT ![r] = s]
    /\ replay' = [replay EXCEPT ![r] = IsReplay(t, s)]
    /\ UNCHANGED <<storeVars, sessions, sessionCache, stateTokens, regVars, accepted, nonces, stored,
                   res, everTrue>>

\* The rest of the launch route once validateNonce has answered: verifyLaunch
\* throws on false; on true createSession, storage.addSession, and
\* new URL(session.launch.target), which throws on a target that is no URL.
FinishLaunch(r) ==
    /\ Quiet
    /\ pc[r] = "returned"
    /\ pc' = [pc EXCEPT ![r] = "done"]
    /\ IF res[r] = "true"
       THEN /\ accepted' = accepted \cup {[tok |-> tok[r], st |-> st[r]]}
            /\ LET out == addSession(backend, sessions, sessionCache,
                                      [id |-> Cardinality(sessions) + 1,
                                       nonce |-> tok[r].nonce], now)
               IN  sessions' = out.tbl /\ sessionCache' = out.cache
            /\ trace' = [trace EXCEPT ![r] = Append(@, "addSession")]
            /\ outcome' = [outcome EXCEPT ![r] =
                              IF tok[r].payload = "validBadTarget" THEN "InvalidUrl"
                              ELSE "redirect"]
       ELSE /\ outcome' = [outcome EXCEPT ![r] = "NonceReplay"]
            /\ UNCHANGED <<accepted, sessions, sessionCache, trace>>
    /\ UNCHANGED <<storeVars, launchConfigCache, jwksCache, stateTokens, regVars, tok, st, lc,
                   replay, nonces, stored, arg, res, everTrue>>

\* The response has been sent; the caller is free for the next request.
Respond(r) ==
    /\ pc[r] = "done"
    /\ pc' = [pc EXCEPT ![r] = "idle"]
    /\ tok' = [tok EXCEPT ![r] = GoodToken(0)]
    /\ st' = [st EXCEPT ![r] = 0]
    /\ lc' = [lc EXCEPT ![r] = NoConfig]
    /\ arg' = [arg EXCEPT ![r] = 0]
    /\ res' = [res EXCEPT ![r] = "none"]
    /\ outcome' = [outcome EXCEPT ![r] = "none"]
    /\ trace' = [trace EXCEPT ![r] = <<>>]
    /\ replay' = [replay EXCEPT ![r] = FALSE]
    /\ UNCHANGED <<storeVars, toolVars, accepted, nonces, stored, everTrue>>

Next ==
    \/ \E q \in LoginRequests : Login(q)
    \/ \E r \in Callers, t \in IdTokens, s \in NonceIds \cup {0} : Submit(r, t, s)
    \/ \E r \in Callers : ValidateNonceMemory(r)
    \/ \E r \in Callers : ValidateNonceMySqlSelect(r)
    \/ \E r \in Callers : ValidateNonceMySqlInsert(r)
    \/ \E r \in Callers : ValidateNonceDynamo(r)
    \/ \E r \in Callers : FinishLaunch(r)
    \/ Tick
    \/ Cleanup
    \/ \E n \in NonceIds : TtlDelete(n)
    \/ \E r \in Callers : Respond(r)

Spec == Init /\ [][Next]_vars

\* --------------------------------------------- clients, deployments, configs
\* bounds of the administration
MaxStoreTime == 4
MaxClients == 1
MaxSessions == 1
LookupDeployments == {"d1", "default"}
\* the client the platform launches for; an administrator registers it under
\* this clientId or another one, and renames it
LookupClientIds == {"c1"}
SessionIds == 1..MaxSessions

KeyOf(iss, clientId, dep) == <<iss, clientId, dep>>
KeysOf(c) == {KeyOf(c.iss, c.clientId, d) : d \in c.deployments}
Replace(cl, c, c2) == (cl \ {c}) \cup {c2}

\* DynamoDB PutItem and DeleteItem on launchConfigTable: pk iss#clientId, sk deploymentId
DynamoPutItem(table, cfg) ==
    {i \in table : KeyOf(i.iss, i.clientId, i.deploymentId)
                       # KeyOf(cfg.iss, cfg.clientId, cfg.deploymentId)} \cup {cfg}
DynamoDeleteItem(table, iss, clientId, dep) ==
    {i \in table : KeyOf(i.iss, i.clientId, i.deploymentId) # KeyOf(iss, clientId, dep)}

\* DynamoDbStorage.saveLaunchConfig: PutItem, then LAUNCH_CONFIG_CACHE.set
saveLaunchConfig(table, cache, cfg, time) ==
    [table |-> DynamoPutItem(table, cfg),
     cache |-> CacheSet(cache, KeyOf(cfg.iss, cfg.clientId, cfg.deploymentId), cfg,
                        CacheExpiry(time, LaunchConfigCacheTtl))]

\* DynamoDbStorage.deleteLaunchConfig: DeleteItem, then LAUNCH_CONFIG_CACHE.delete
deleteLaunchConfig(table, cache, iss, clientId, dep) ==
    [table |-> DynamoDeleteItem(table, iss, clientId, dep),
     cache |-> CacheDelete(cache, KeyOf(iss, clientId, dep))]

\* DynamoDbStorage.deleteAllClientLaunchConfigs: Query pk, DeleteItem for each
\* item; LAUNCH_CONFIG_CACHE is not touched
deleteAllClientLaunchConfigs(table, iss, clientId) ==
    {i \in table : ~(i.iss = iss /\ i.clientId = clientId)}

\* DynamoDbStorage.updateClientLaunchConfigs: saveLaunchConfig of
\* buildLtiLaunchConfig for every deployment of the client
DynamoUpdateClientLaunchConfigs(table, cache, c, time) ==
    [table |-> {i \in table : KeyOf(i.iss, i.clientId, i.deploymentId) \notin KeysOf(c)}
                   \cup ProjectLaunchConfigs({c}),
     cache |-> {e \in cache : e.key \notin KeysOf(c)}
                   \cup {[key |-> KeyOf(c.iss, c.clientId, d), val |-> ConfigOf(c, d),
                          exp |-> CacheExpiry(time, LaunchConfigCacheTtl)] : d \in c.deployments}]

\* MySqlStorage: LAUNCH_CONFIG_CACHE.delete for every deployment of the client
MySqlClearLaunchConfigs(cache, c) == {e \in cache : e.key \notin KeysOf(c)}

\* addClient: a client without deployments; no launch config is written
addClient(cl, iss, clientId, jwksUrl) ==
    cl \cup {[iss |-> iss, clientId |-> clientId, jwksUrl |-> jwksUrl, deployments |-> {}]}

\* addDeployment.  MemoryStorage pushes onto client.deployments, MySqlStorage
\* inserts the row, DynamoDbStorage puts the item and saves the launch config.
addDeployment(b, cl, table, cache, c, d, time) ==
    LET c2 == [c EXCEPT !.deployments = @ \cup {d}]
        saved == saveLaunchConfig(table, cache, ConfigOf(c2, d), time)
    IN  [clients |-> Replace(cl, c, c2),
         table |-> IF b = "dynamodb" THEN saved.table ELSE table,
         cache |-> IF b = "dynamodb" THEN saved.cache ELSE cache]

\* MemoryStorage.updateClient, updateDeployment and deleteDeployment: a warning is
\* logged, nothing is changed
MemoryNotImplemented(cl, table, cache) == [clients |-> cl, table |-> table, cache |-> cache]

\* MySqlStorage.updateClient: when iss or clientId changes the cache keys of the
\* old identity are deleted; UPDATE; updateClientLaunchConfigs deletes the cache
\* keys of the updated client
MySqlUpdateClient(cl, table, cache, c, c2) ==
    LET changed == c2.iss # c.iss \/ c2.clientId # c.clientId
        cleared == IF changed THEN MySqlClearLaunchConfigs(cache, c) ELSE cache
    IN  [clients |-> Replace(cl, c, c2), table |-> table,
         cache |-> MySqlClearLaunchConfigs(cleared, c2)]

\* DynamoDbStorage.updateClient: when iss or clientId changes
\* deleteAllClientLaunchConfigs of the old identity; PutItem; updateClientLaunchConfigs
DynamoUpdateClient(cl, table, cache, c, c2, time) ==
    LET changed == c2.iss # c.iss \/ c2.clientId # c.clientId
        kept == IF changed THEN deleteAllClientLaunchConfigs(table, c.iss, c.clientId)
                ELSE table
        out == DynamoUpdateClientLaunchConfigs(kept, cache, c2, time)
    IN  [clients |-> Replace(cl, c, c2), table |-> out.table, cache |-> out.cache]

updateClient(b, cl, table, cache, c, c2, time) ==
    IF b = "memory" THEN MemoryNotImplemented(cl, table, cache)
    ELSE IF b = "mysql" THEN MySqlUpdateClient(cl, table, cache, c, c2)
    ELSE DynamoUpdateClient(cl, table, cache, c, c2, time)

\* MySqlStorage.updateDeployment with a new deploymentId: the cache key of the old
\* deploymentId is deleted; UPDATE
MySqlUpdateDeployment(cl, table, cache, c, d, d2) ==
    [clients |-> Replace(cl, c, [c EXCEPT !.deployments = (@ \ {d}) \cup {d2}]),
     table |-> table,
     cache |-> IF d2 # d THEN CacheDelete(cache, KeyOf(c.iss, c.clientId, d)) ELSE cache]

\* DynamoDbStorage.updateDeployment with a new deploymentId: deleteLaunchConfig of
\* the old one; PutItem; saveLaunchConfig of buildLtiLaunchConfig
DynamoUpdateDeployment(cl, table, cache, c, d, d2, time) ==
    LET c2 == [c EXCEPT !.deployments = (@ \ {d}) \cup {d2}]
        del == IF d2 # d THEN deleteLaunchConfig(table, cache, c.iss, c.clientId, d)
               ELSE [table |-> table, cache |-> cache]
        saved == saveLaunchConfig(del.table, del.cache, ConfigOf(c2, d2), time)
    IN  [clients |-> Replace(cl, c, c2), table |-> saved.table, cache |-> saved.cache]

updateDeployment(b, cl, table, cache, c, d, d2, time) ==
    IF b = "memory" THEN MemoryNotImplemented(cl, table, cache)
    ELSE IF b = "mysql" THEN MySqlUpdateDeployment(cl, table, cache, c, d, d2)
    ELSE DynamoUpdateDeployment(cl, table, cache, c, d, d2, time)

\* deleteClient.  MemoryStorage deletes the client and its clientLookup entry.
\* MySqlStorage deletes the cache keys of its deployments, then the rows.
\* DynamoDbStorage calls deleteAllClientLaunchConfigs, then deletes the items.
deleteClient(b, cl, table, cache, c) ==
    [clients |-> cl \ {c},
     table |-> IF b = "dynamodb" THEN deleteAllClientLaunchConfigs(table, c.iss, c.clientId)
               ELSE table,
     cache |-> IF b = "mysql" THEN MySqlClearLaunchConfigs(cache, c) ELSE cache]

\* deleteDeployment.  MySqlStorage deletes the cache key, then the row.
\* DynamoDbStorage calls deleteLaunchConfig, then deletes the item.
deleteDeployment(b, cl, table, cache, c, d) ==
    LET c2 == [c EXCEPT !.deployments = @ \ {d}]
        del == deleteLaunchConfig(table, cache, c.iss, c.clientId, d)
    IN  IF b = "memory" THEN MemoryNotImplemented(cl, table, cache)
        ELSE IF b = "mysql"
        THEN [clients |-> Replace(cl, c, c2), table |-> table,
              cache |-> CacheDelete(cache, KeyOf(c.iss, c.clientId, d))]
        ELSE [clients |-> Replace(cl, c, c2), table |-> del.table, cache |-> del.cache]

\* ------------------------------------------------- the administered storage
\* A storage just constructed: no client, no session, empty caches.
InitEmpty ==
    /\ backend \in Backends
    /\ now = 0
    /\ horizon = MaxStoreTime
    /\ nonceExpiration = DefaultNonceExpiration
    /\ stateExpiration = DefaultStateExpiration
    /\ clients = {}
    /\ launchConfigTable = {}
    /\ launchConfigCache = {}
    /\ nonces = {}
    /\ sessions = {}
    /\ sessionCache = {}
    /\ jwksCache = {}
    /\ stateTokens = {}
    /\ registrationSessions = {}
    /\ registered = [tk \in Tokens |-> [issued |-> FALSE, posted |-> 0]]
    /\ stored = {}
    /\ accepted = {}
    /\ everTrue = {}
    /\ Idle

InitAdmin == InitEmpty /\ NothingBuilt

Registered(iss, clientId) == \E c \in clients : c.iss = iss /\ c.clientId = clientId

\* what an administration call leaves alone
AdminFrame ==
    UNCHANGED <<backend, now, horizon, nonceExpiration, stateExpiration, call, sessions,
                sessionCache, jwksCache, stateTokens, regVars, launchVars, nonces, stored, pc, arg,
                res, everTrue>>
Applied(out) ==
    /\ clients' = out.clients
    /\ launchConfigTable' = out.table
    /\ launchConfigCache' = out.cache
    /\ AdminFrame

AddClient(clientId) ==
    /\ Cardinality(clients) < MaxClients
    /\ ~Registered(Issuer, clientId)
    /\ clients' = addClient(clients, Issuer, clientId, "jwks1")
    /\ UNCHANGED <<launchConfigTable, launchConfigCache>>
    /\ AdminFrame

AddDeployment(c, d) ==
    /\ d \notin c.deployments
    /\ Applied(addDeployment(backend, clients, launchConfigTable, launchConfigCache, c, d, now))

\* updateClient with a new clientId
UpdateClient(c, clientId) ==
    /\ clientId # c.clientId
    /\ ~Registered(c.iss, clientId)
    /\ Applied(updateClient(backend, clients, launchConfigTable, launchConfigCache, c,
                            [c EXCEPT !.clientId = clientId], now))

\* updateDeployment with a new deploymentId
UpdateDeployment(c, d, d2) ==
    /\ d \in c.deployments
    /\ d2 \notin c.deployments
    /\ Applied(updateDeployment(backend, clients, launchConfigTable, launchConfigCache,
                                c, d, d2, now))

DeleteClient(c) ==
    Applied(deleteClient(backend, clients, launchConfigTable, launchConfigCache, c))

DeleteDeployment(c, d) ==
    /\ d \in c.deployments
    /\ Applied(deleteDeployment(backend, clients, launchConfigTable, launchConfigCache, c, d))

\* what a lookup leaves alone
LookupFrame ==
    UNCHANGED <<backend, now, horizon, nonceExpiration, stateExpiration, clients,
                launchConfigTable, sessions, jwksCache, stateTokens, regVars, launchVars, nonces,
                stored, arg, res, everTrue>>
\* one lookup is in flight at a time; what it races with is the administration
Enter(r) ==
    /\ \A q \in Callers : pc[q] = "idle" /\ r <= q
    /\ pc' = [pc EXCEPT ![r] = "lookup"]
Leave(r, op) ==
    /\ pc[r] = "lookup"
    /\ call[r].op = op
    /\ pc' = [pc EXCEPT ![r] = "idle"]
    /\ call' = [call EXCEPT ![r] = NoCall]
Written(cache, out) == {[key |-> e.key, val |-> e.val] : e \in out.cache \ cache}

\* getLaunchConfig up to its last await: the cache is asked, then the store; what
\* the call will set in the cache it sets when it resumes
BeginGetLaunchConfig(r, clientId, dep) ==
    /\ Enter(r)
    /\ LET out == getLaunchConfig(backend, launchConfigCache, clients, launchConfigTable,
                                  Issuer, clientId, dep, now)
       IN  call' = [call EXCEPT ![r] =
                       [op |-> "getLaunchConfig", key |-> KeyOf(Issuer, clientId, dep),
                        val |-> out.cfg, reads |-> out.reads,
                        write |-> Written(launchConfigCache, out)]]
    /\ UNCHANGED <<launchConfigCache, sessionCache>>
    /\ LookupFrame

\* getLaunchConfig from its last await on: LAUNCH_CONFIG_CACHE.set and the return
EndGetLaunchConfig(r) ==
    /\ Leave(r, "getLaunchConfig")
    /\ launchConfigCache' =
           {e \in launchConfigCache : \A w \in call[r].write : w.key # e.key}
               \cup {[key |-> w.key, val |-> w.val,
                      exp |-> CacheExpiry(now, LaunchConfigCacheTtl)] : w \in call[r].write}
    /\ UNCHANGED sessionCache
    /\ LookupFrame

\* addSession with a session id never used before
AddSession(id) ==
    /\ ~HasSession(sessions, id)
    /\ LET out == addSession(backend, sessions, sessionCache, [id |-> id, nonce |-> 0], now)
       IN  sessions' = out.tbl /\ sessionCache' = out.cache
    /\ UNCHANGED <<backend, now, horizon, nonceExpiration, stateExpiration, clients,
                   launchConfigTable, launchConfigCache, call, jwksCache, stateTokens, regVars,
                   launchVars, nonces, stored, pc, arg, res, everTrue>>

\* getSession up to its await: SESSION_CACHE is asked, then the store
BeginGetSession(r, id) ==
    /\ Enter(r)
    /\ LET out == getSession(backend, sessions, sessionCache, id, now)
       IN  call' = [call EXCEPT ![r] =
                       [op |-> "getSession", key |-> <<id>>, val |-> out.val,
                        reads |-> out.reads, write |-> Written(sessionCache, out)]]
    /\ UNCHANGED <<launchConfigCache, sessionCache>>
    /\ LookupFrame

\* getSession from its await on: SESSION_CACHE.set and the return
EndGetSession(r) ==
    /\ Leave(r, "getSession")
    /\ sessionCache' =
           {e \in sessionCache : \A w \in call[r].write : w.key # e.key}
               \cup {[key |-> w.key, val |-> w.val,
                      exp |-> CacheExpiry(now, SessionCacheTtl)] : w \in call[r].write}
    /\ UNCHANGED launchConfigCache
    /\ LookupFrame

NextStore ==
    \/ \E clientId \in ClientIds : AddClient(clientId)
    \/ \E c \in clients, d \in LookupDeployments : AddDeployment(c, d)
    \/ \E c \in clients, clientId \in ClientIds : UpdateClient(c, clientId)
    \/ \E c \in clients, d \in LookupDeployments, d2 \in LookupDeployments :
           UpdateDeployment(c, d, d2)
    \/ \E c \in clients : DeleteClient(c)
    \/ \E c \in clients, d \in LookupDeployments : DeleteDeployment(c, d)
    \/ \E r \in Callers, clientId \in LookupClientIds, dep \in LookupDeployments :
           BeginGetLaunchConfig(r, clientId, dep)
    \/ \E r \in Callers : EndGetLaunchConfig(r)
    \/ \E id \in SessionIds : AddSession(id)
    \/ \E r \in Callers, id \in SessionIds : BeginGetSession(r, id)
    \/ \E r \in Callers : EndGetSession(r)
    \/ Tick

SpecStore == InitAdmin /\ [][NextStore]_vars

\* ------------------------------------------------- logins of an administered tool
\* handleLogin called by a request, and how it ended
HandleLogin(r, q) ==
    \E n \in NonceIds :
        /\ pc[r] = "idle"
        /\ \A p \in Callers : p < r => pc[p] # "idle"
        /\ Fresh(n)
        /\ stored' = stored \cup {[nonce |-> n, expiresAt |-> now + nonceExpiration]}
        /\ LET out == handleLogin(backend, nonces, launchConfigCache, clients,
                                  launchConfigTable, stateTokens, q, n, now,
                                  nonceExpiration, stateExpiration)
           IN  /\ nonces' = out.nonces
               /\ launchConfigCache' = out.cache
               /\ stateTokens' = out.tokens
               /\ outcome' = [outcome EXCEPT ![r] = out.outcome]
        /\ pc' = [pc EXCEPT ![r] = "answered"]
        /\ call' = [call EXCEPT ![r] =
                        [NoCall EXCEPT !.op = "handleLogin",
                                       !.key = KeyOf(Issuer, q.client_id, q.lti_deployment_id)]]
        /\ UNCHANGED <<backend, now, horizon, nonceExpiration, stateExpiration, clients,
                       launchConfigTable, sessions, sessionCache, jwksCache, regVars, tok, st,
                       lc, trace, replay, accepted, arg, res, everTrue>>

\* the redirect or the error has been sent
AnswerLogin(r) ==
    /\ pc[r] = "answered"
    /\ pc' = [pc EXCEPT ![r] = "idle"]
    /\ outcome' = [outcome EXCEPT ![r] = "none"]
    /\ call' = [call EXCEPT ![r] = NoCall]
    /\ UNCHANGED <<backend, now, horizon, nonceExpiration, stateExpiration, clients,
                   launchConfigTable, toolVars, tok, st, lc, trace, replay, accepted, nonces,
                   stored, arg, res, everTrue>>

NextLogin ==
    \/ \E clientId \in ClientIds : AddClient(clientId)
    \/ \E c \in clients, d \in LookupDeployments : AddDeployment(c, d)
    \/ \E c \in clients : DeleteClient(c)
    \/ \E r \in Callers, q \in LoginRequests : HandleLogin(r, q)
    \/ \E r \in Callers : AnswerLogin(r)
    \/ Tick

SpecLogin == InitAdmin /\ [][NextLogin]_vars

\* ----------------------------------------------- launches of an administered tool
\* The launches a platform sends for client c1: correctly signed, schema-valid,
\* with the deployment_id d1, or d2 that nobody registers.
LaunchTokens ==
    {GoodToken(n) : n \in NonceIds} \cup {[GoodToken(0) EXCEPT !.dep = "d2"]}

NextLaunch ==
    \/ \E clientId \in LookupClientIds : AddClient(clientId)
    \/ \E c \in clients, d \in LookupDeployments : AddDeployment(c, d)
    \/ \E q \in LoginRequests : Login(q)
    \/ \E r \in Callers, t \in LaunchTokens, s \in NonceIds \cup {0} : Submit(r, t, s)
    \/ \E r \in Callers : ValidateNonceMemory(r)
    \/ \E r \in Callers : ValidateNonceMySqlSelect(r)
    \/ \E r \in Callers : ValidateNonceMySqlInsert(r)
    \/ \E r \in Callers : ValidateNonceDynamo(r)
    \/ \E r \in Callers : FinishLaunch(r)
    \/ \E r \in Callers : Respond(r)
    \/ Tick

SpecLaunch == InitAdmin /\ [][NextLaunch]_vars

\* ------------------------------------------------ key sets of interleaved launches
\* Two clients of the platform with a key set each; c1 has two deployments.
KeyClients ==
    {[iss |-> Issuer, clientId |-> "c1", jwksUrl |-> "jwks1", deployments |-> {"d1", "d2"}],
     [iss |-> Issuer, clientId |-> "c2", jwksUrl |-> "jwks2", deployments |-> {"d1"}]}

\* the id_tokens that reach step 2, signed by the platform or not
KeyTokens ==
    {t \in AllIdTokens : /\ t.iss = Issuer /\ ~t.audArray
                          /\ t.payload = "valid" /\ t.nonce = 0}

InitKeys ==
    /\ backend \in Backends
    /\ now = 0
    /\ horizon = MaxStoreTime
    /\ nonceExpiration = DefaultNonceExpiration
    /\ stateExpiration = DefaultStateExpiration
    /\ clients = KeyClients
    /\ launchConfigTable = IF backend = "dynamodb" THEN ProjectLaunchConfigs(clients) ELSE {}
    /\ launchConfigCache = {}
    /\ nonces = {}
    /\ sessions = {}
    /\ sessionCache = {}
    /\ jwksCache = {}
    /\ stateTokens = {}
    /\ registrationSessions = {}
    /\ registered = [tk \in Tokens |-> [issued |-> FALSE, posted |-> 0]]
    /\ NothingBuilt
    /\ stored = {}
    /\ accepted = {}
    /\ everTrue = {}
    /\ Idle

\* verifyLaunch steps 1 and 2, up to the answer of getValidLaunchConfig
BeginLaunch(r, t) ==
    /\ pc[r] = "idle"
    /\ LET out == getLaunchConfig(backend, launchConfigCache, clients, launchConfigTable,
                                  t.iss, AudString(t), t.dep, now)
       IN  /\ launchConfigCache' = out.cache
           /\ lc' = [lc EXCEPT ![r] = out.cfg]
           /\ pc' = [pc EXCEPT ![r] = IF out.cfg = NoConfig THEN "done" ELSE "keys"]
           /\ outcome' = [outcome EXCEPT ![r] =
                             IF out.cfg = NoConfig THEN "ConfigurationError" ELSE @]
    /\ tok' = [tok EXCEPT ![r] = t]
    /\ trace' = [trace EXCEPT ![r] = <<"decode", "getLaunchConfig">>]
    /\ UNCHANGED <<storeVars, sessions, sessionCache, jwksCache, stateTokens, regVars, st,
                   replay, accepted, nonces, stored, arg, res, everTrue>>

\* verifyLaunch step 3 up to the call of jwtVerify
ResolveKeySet(r) ==
    /\ pc[r] = "keys"
    /\ LET out == resolveKeySet(jwksCache, lc[r].jwksUrl)
       IN  /\ jwksCache' = out.jwks
           /\ call' = [call EXCEPT ![r] =
                           [NoCall EXCEPT !.op = "createRemoteJWKSet",
                                          !.key = <<lc[r].jwksUrl>>,
                                          !.write = out.created]]
    /\ pc' = [pc EXCEPT ![r] = "verify"]
    /\ UNCHANGED <<backend, now, horizon, nonceExpiration, stateExpiration, clients,
                   launchConfigTable, launchConfigCache, sessions, sessionCache, stateTokens,
                   regVars, launchVars, nonces, stored, arg, res, everTrue>>

\* jwtVerify against the key set has answered; the steps after it are not
\* followed here
EndLaunch(r) ==
    /\ pc[r] = "verify"
    /\ pc' = [pc EXCEPT ![r] = "done"]
    /\ outcome' = [outcome EXCEPT ![r] = IF tok[r].sig THEN "redirect" ELSE "InvalidSignature"]
    /\ trace' = [trace EXCEPT ![r] = Append(@, "jwtVerify")]
    /\ call' = [call EXCEPT ![r] = NoCall]
    /\ UNCHANGED <<backend, now, horizon, nonceExpiration, stateExpiration, clients,
                   launchConfigTable, toolVars, tok, st, lc, replay, accepted, nonces, stored,
                   arg, res, everTrue>>

NextKeys ==
    \/ \E r \in Callers, t \in KeyTokens : BeginLaunch(r, t)
    \/ \E r \in Callers : ResolveKeySet(r)
    \/ \E r \in Callers : EndLaunch(r)
    \/ \E r \in Callers : Respond(r)
    \/ Tick

SpecKeys == InitKeys /\ [][NextKeys]_vars

\* ------------------------------------------------- sessions built from payloads
InitCreateSession ==
    /\ InitEmpty
    /\ backend = "memory"
    /\ payload \in ValidatedPayloads
    /\ built = NotBuilt
    /\ clock = 0 /\ assertion = NoAssertion /\ response = NoResponse /\ bearer = "none"
    /\ otherClients = {} /\ otherLaunchConfigTable = {}
    /\ EmptyMemory

\* the launch route hands the validated payload to createSession
CreateSession ==
    /\ built = NotBuilt
    /\ built' = createSession(payload)
    /\ UNCHANGED <<storeVars, launchConfigCache, sessions, sessionCache, jwksCache,
                   stateTokens, registrationSessions, registered, payload, tokVars,
                   instVars, memVars, launchVars, nonces, stored, pc, arg, res, everTrue>>

NextCreateSession == CreateSession

SpecCreateSession == InitCreateSession /\ [][NextCreateSession]_vars

\* ------------------------------------------------------- bearer tokens
MaxClock == 4

InitToken ==
    /\ InitEmpty
    /\ backend = "memory"
    /\ payload = NoPayload /\ built = NotBuilt
    /\ clock \in 0..1
    /\ assertion = NoAssertion /\ response = NoResponse /\ bearer = "none"
    /\ otherClients = {} /\ otherLaunchConfigTable = {}
    /\ EmptyMemory

TokenFrame ==
    UNCHANGED <<storeVars, launchConfigCache, sessions, sessionCache, jwksCache, stateTokens,
                registrationSessions, registered, sessVars, instVars, memVars, launchVars,
                nonces, stored, pc, arg, res, everTrue>>

\* the system clock moves on
ClockTick ==
    /\ clock < MaxClock
    /\ clock' = clock + 1
    /\ UNCHANGED <<assertion, response, bearer>>
    /\ TokenFrame

\* getBearerToken calls createClientAssertion, which evaluates iss, sub, aud and
\* iat: the first Date.now()
ReadIat(clientId, tokenUrl) ==
    /\ assertion.state = "none"
    /\ assertion' = [state |-> "iat", iss |-> clientId, sub |-> clientId, aud |-> tokenUrl,
                     iat |-> Seconds(clock), exp |-> 0]
    /\ UNCHANGED <<clock, response, bearer>>
    /\ TokenFrame

\* createClientAssertion evaluates exp: the second Date.now()
ReadExp ==
    /\ assertion.state = "iat"
    /\ assertion' = [assertion EXCEPT !.state = "built",
                                      !.exp = Seconds(clock) + AssertionLifetime]
    /\ UNCHANGED <<clock, response, bearer>>
    /\ TokenFrame

\* the rest of getBearerToken: the assertion is posted, the endpoint answers,
\* the answer is read
RequestToken(resp) ==
    /\ assertion.state = "built"
    /\ bearer = "none"
    /\ response' = resp
    /\ bearer' = ReadTokenResponse(resp)
    /\ UNCHANGED <<clock, assertion>>
    /\ TokenFrame

\* the caller has the token or the error; the next getBearerToken may start
ReturnToken ==
    /\ bearer # "none"
    /\ assertion' = NoAssertion /\ response' = NoResponse /\ bearer' = "none"
    /\ UNCHANGED clock
    /\ TokenFrame

NextToken ==
    \/ ClockTick
    \/ \E clientId \in TokenClients, tokenUrl \in TokenUrls : ReadIat(clientId, tokenUrl)
    \/ ReadExp
    \/ \E resp \in TokenResponses : RequestToken(resp)
    \/ ReturnToken

SpecToken == InitToken /\ [][NextToken]_vars

\* ------------------------------------------- two storage instances in one process
\* Two MySqlStorage or two DynamoDbStorage instances, each with its own database
\* or tables; LAUNCH_CONFIG_CACHE is a constant of the module, one per process.
Instances == {"own", "other"}
ClientsOf(inst) == IF inst = "own" THEN clients ELSE otherClients
TableOf(inst) == IF inst = "own" THEN launchConfigTable ELSE otherLaunchConfigTable

InitInstances == InitAdmin /\ backend \in {"mysql", "dynamodb"}

InstanceFrame ==
    UNCHANGED <<backend, now, horizon, nonceExpiration, stateExpiration, sessions,
                sessionCache, jwksCache, stateTokens, registrationSessions, registered,
                sessVars, tokVars, memVars, launchVars, nonces, stored, pc, arg, res,
                everTrue>>

\* addClient on the second instance
AddOtherClient(clientId) ==
    /\ Cardinality(otherClients) < MaxClients
    /\ \A c \in otherClients : c.clientId # clientId
    /\ otherClients' = addClient(otherClients, Issuer, clientId, "jwks2")
    /\ UNCHANGED <<clients, launchConfigTable, launchConfigCache, otherLaunchConfigTable, call>>
    /\ InstanceFrame

\* addDeployment on the second instance
AddOtherDeployment(c, d) ==
    /\ d \notin c.deployments
    /\ LET out == addDeployment(backend, otherClients, otherLaunchConfigTable,
                                launchConfigCache, c, d, now)
       IN  /\ otherClients' = out.clients
           /\ otherLaunchConfigTable' = out.table
           /\ launchConfigCache' = out.cache
    /\ UNCHANGED <<clients, launchConfigTable, call>>
    /\ InstanceFrame

\* getLaunchConfig on one of the two instances; the caller keeps the answer.
\* The calls are made one after the other, by the first caller.
GetLaunchConfigOf(r, inst, clientId, dep) ==
    /\ \A q \in Callers : r <= q
    /\ LET out == getLaunchConfig(backend, launchConfigCache, ClientsOf(inst), TableOf(inst),
                                  Issuer, clientId, dep, now)
       IN  /\ launchConfigCache' = out.cache
           /\ call' = [call EXCEPT ![r] =
                           [NoCall EXCEPT !.op = inst,
                                          !.key = KeyOf(Issuer, clientId, dep),
                                          !.val = out.cfg,
                                          !.reads = out.reads]]
    /\ UNCHANGED <<clients, launchConfigTable, instVars>>
    /\ InstanceFrame

NextInstances ==
    \/ \E clientId \in LookupClientIds : AddClient(clientId)
    \/ \E c \in clients, d \in LookupDeployments : AddDeployment(c, d)
    \/ \E clientId \in LookupClientIds : AddOtherClient(clientId)
    \/ \E c \in otherClients, d \in LookupDeployments : AddOtherDeployment(c, d)
    \/ \E r \in Callers, inst \in Instances, clientId \in LookupClientIds,
          dep \in LookupDeployments : GetLaunchConfigOf(r, inst, clientId, dep)
    \/ Tick

SpecInstances == InitInstances /\ [][NextInstances]_vars

\* --------------------------------------------------- sessions over their life
\* the sessions of this specification are created in the first instants and
\* followed until the day after
MaxSessionStart == 1
MaxSessionTime == SessionTtl + MaxSessionStart + 1

InitSession ==
    /\ backend \in Backends
    /\ now = 0
    /\ horizon = MaxSessionTime
    /\ nonceExpiration = DefaultNonceExpiration
    /\ stateExpiration = DefaultStateExpiration
    /\ clients = {}
    /\ launchConfigTable = {}
    /\ launchConfigCache = {}
    /\ nonces = {}
    /\ sessions = {}
    /\ sessionCache = {}
    /\ jwksCache = {}
    /\ stateTokens = {}
    /\ registrationSessions = {}
    /\ registered = [tk \in Tokens |-> [issued |-> FALSE, posted |-> 0]]
    /\ NothingBuilt
    /\ stored = {}
    /\ accepted = {}
    /\ everTrue = {}
    /\ Idle

\* DynamoDB's TTL sweep deletes a session item some time after its ttl has passed
TtlDeleteSession(id) ==
    /\ backend = "dynamodb"
    /\ HasSession(sessions, id)
    /\ SessionOf(sessions, id).expiresAt < now
    /\ sessions' = {x \in sessions : x.id # id}
    /\ UNCHANGED <<storeVars, launchConfigCache, sessionCache, jwksCache, stateTokens, regVars,
                   launchVars, nonces, stored, pc, arg, res, everTrue>>

NextSession ==
    \/ \E id \in SessionIds : now <= MaxSessionStart /\ AddSession(id)
    \/ \E r \in Callers, id \in SessionIds : BeginGetSession(r, id)
    \/ \E r \in Callers : EndGetSession(r)
    \/ Tick
    \/ Cleanup
    \/ \E id \in SessionIds : TtlDeleteSession(id)

SpecSession == InitSession /\ [][NextSession]_vars

\* ------------------------------------------------------ validateNonce claims
Returned(r) == pc[r] = "returned"
WasStored(n) == \E x \in stored : x.nonce = n
TrueCalls(n) == {r \in Callers : arg[r] = n /\ res[r] = "true"}

C3_ConsumedOnce == \A n \in NonceIds : Cardinality(TrueCalls(n)) <= 1

CheckOrder ==
    <<"decode", "getLaunchConfig", "jwtVerify", "state", "schema", "aud", "nonceMatch",
      "validateNonce", "addSession">>
ErrorOfCheck ==
    <<"NoIssuer", "ConfigurationError", "InvalidSignature", "InvalidState",
      "SchemaValidationError", "ClientMismatch", "NonceMismatch", "NonceReplay">>
Done(r) == pc[r] = "done"
Submitted(r) == pc[r] # "idle"
ConfigKnown(t) ==
    \E c \in clients : c.iss = t.iss /\ c.clientId = t.aud /\ t.dep \in c.deployments
AudRegistered(t) == ~t.audArray /\ \E c \in clients : c.iss = t.iss /\ c.clientId = t.aud
StateWasVerified(r) == Len(trace[r]) > 4

\* what check k of 1..7 finds wrong with the pair (t, s) at this instant
CheckFails(k, t, s) ==
    CASE k = 1 -> t.iss = "none"
      [] k = 2 -> ~ConfigKnown(t)
      [] k = 3 -> ~t.sig
      [] k = 4 -> ~(\E x \in stateTokens : x.nonce = s /\ x.exp > now)
      [] k = 5 -> t.payload = "invalid"
      [] k = 6 -> ~AudRegistered(t)
      [] k = 7 -> s # t.nonce
FirstFailing(t, s) ==
    IF \E k \in 1..7 : CheckFails(k, t, s)
    THEN CHOOSE k \in 1..7 : CheckFails(k, t, s) /\ \A j \in 1..(k - 1) : ~CheckFails(j, t, s)
    ELSE 8

\* C2: a pair that verifyLaunch accepted and that is submitted a second time is
\* rejected, with NonceReplay once its state still verifies (InvalidState once
\* the state has expired).
C2_ReplayRejected ==
    \A r \in Callers :
        replay[r] /\ Done(r) => outcome[r] \in {"NonceReplay", "InvalidState"}

\* C4: the checks run in the order 1..8; the call ends with the error of the
\* first check that fails, having executed that check and those before it and
\* nothing after it: no later check, no storage call, no session.
C4_StrictOrder ==
    [][\A r \in Callers :
          /\ (pc[r] = "idle" /\ pc'[r] # "idle") =>
                 LET k == FirstFailing(tok'[r], st'[r])
                 IN  /\ trace'[r] = SubSeq(CheckOrder, 1, k)
                     /\ IF k = 8
                        THEN pc'[r] = "nonce" /\ outcome'[r] = "none"
                        ELSE /\ pc'[r] = "done" /\ outcome'[r] = ErrorOfCheck[k]
                             /\ nonces' = nonces /\ sessions' = sessions
                             /\ k < 2 => launchConfigCache' = launchConfigCache
                             /\ k < 3 => jwksCache' = jwksCache
          /\ (pc[r] = "returned" /\ pc'[r] = "done") =>
                 IF res[r] = "false"
                 THEN /\ outcome'[r] = ErrorOfCheck[8] /\ trace'[r] = SubSeq(CheckOrder, 1, 8)
                      /\ sessions' = sessions
                 ELSE trace'[r] = CheckOrder]_vars

\* C4 witness: a token with an invalid payload and an array aud was rejected by the schema check
C4_Witness ==
    \E r \in Callers :
        /\ Done(r) /\ tok[r].audArray /\ tok[r].payload = "invalid"
        /\ outcome[r] = "SchemaValidationError"

\* C5: a launch that passes checks 1 to 6 and whose nonce differs from the nonce
\* of the verified state ends with NonceMismatch, whether or not the two nonces
\* have been consumed.
C5_NonceMismatch ==
    \A r \in Callers :
        (/\ Submitted(r) /\ StateWasVerified(r)
         /\ ConfigKnown(tok[r]) /\ tok[r].sig /\ tok[r].payload # "invalid"
         /\ AudRegistered(tok[r])
         /\ tok[r].nonce # st[r])
        => Done(r) /\ outcome[r] = "NonceMismatch"

\* C5 witness: token and state carry two different issued nonces, neither consumed
C5_Witness ==
    \E r \in Callers :
        /\ Done(r) /\ outcome[r] = "NonceMismatch"
        /\ tok[r].nonce \in IssuedNonces /\ st[r] \in IssuedNonces
        /\ tok[r].nonce \notin everTrue /\ st[r] \notin everTrue

C7_ConfigBeforeKeys ==
    [][\A r \in Callers :
          (pc[r] = "idle" /\ pc'[r] # "idle" /\ tok'[r].iss # "none" /\ ~ConfigKnown(tok'[r]))
          => /\ outcome'[r] = "ConfigurationError"
             /\ trace'[r] = <<"decode", "getLaunchConfig">>
             /\ jwksCache' = jwksCache]_vars

\* C7 witness: a signed token for an unknown deployment ended with ConfigurationError
\* while the key set of a known platform is cached
C7_Witness ==
    \E r \in Callers :
        /\ Done(r) /\ tok[r].dep = "d2" /\ tok[r].sig /\ outcome[r] = "ConfigurationError"
        /\ jwksCache # {}

\* C8: validateNonce is called only once checks 1 to 7 have passed; a call that
\* fails leaves the nonce store as it was, both when it fails in steps 1 to 7
\* and when it fails after the nonce has been consumed.
C8_ConsumedLast ==
    [][\A r \in Callers :
          /\ pc'[r] = "nonce" =>
                 /\ \A k \in 1..7 : k # 4 => ~CheckFails(k, tok'[r], st'[r])
                 /\ pc[r] = "idle" => ~CheckFails(4, tok'[r], st'[r])
                 /\ arg'[r] = tok'[r].nonce
          /\ (outcome[r] = "none" /\ outcome'[r] \notin {"none", "redirect"}) =>
                 nonces' = nonces /\ everTrue' = everTrue]_vars

\* C8 witness: the launch route failed after the nonce was consumed, and the nonce stays consumed
C8_Witness ==
    \E r \in Callers :
        /\ Done(r) /\ outcome[r] = "InvalidUrl" /\ backend = "mysql"
        /\ HasRow(nonces, tok[r].nonce) /\ tok[r].nonce \in everTrue

\* C9: a launch flow that ends in failure has persisted no session and has not
\* consumed its nonce.
C9_NoPartialEffect ==
    \A r \in Callers :
        Done(r) /\ Failed(r) =>
            /\ "addSession" \notin {trace[r][i] : i \in DOMAIN trace[r]}
            /\ res[r] # "true"

\* ------------------------------------------------- nonce expiry and availability
\* C11: a validateNonce call never returns true for a nonce whose expiresAt, as
\* handleLogin passed it to storeNonce, has passed.
C11_ExpiredIsFalse ==
    [][\A r \in Callers :
          (res[r] = "none" /\ res'[r] = "true")
          => \A x \in stored : x.nonce = arg[r] => ~(x.expiresAt < now)]_vars

\* the launch handleLogin's redirect leads to: every claim as registered, the
\* nonce of the state, submitted while state and nonce have not expired and
\* no validateNonce call has consumed the nonce
LaunchOfLogin(t, s) ==
    /\ s \in IssuedNonces
    /\ Differences(t) = {} /\ t.nonce = s
NonceAvailable(n) ==
    /\ n \notin everTrue
    /\ \E x \in stored : x.nonce = n /\ now <= x.expiresAt

\* C12: after handleLogin has returned a redirect URL, the one launch that carries
\* its nonce and state passes checks 1 to 7 while the state has not expired,
\* its validateNonce call returns true while the nonce has not expired, and the
\* launch route then persists a session and redirects, on every backend.
C12_LaunchAfterLogin ==
    [][\A r \in Callers :
          /\ (/\ pc[r] = "idle" /\ pc'[r] # "idle"
              /\ LaunchOfLogin(tok'[r], st'[r])
              /\ \E x \in stateTokens : x.nonce = st'[r] /\ x.exp > now)
             => pc'[r] = "nonce" /\ arg'[r] = st'[r]
          /\ (/\ res[r] = "none" /\ res'[r] # "none"
              /\ LaunchOfLogin(tok[r], st[r])
              /\ NonceAvailable(arg[r]))
             => res'[r] = "true"
          /\ (/\ pc[r] = "returned" /\ pc'[r] = "done"
              /\ LaunchOfLogin(tok[r], st[r]) /\ res[r] = "true")
             => outcome'[r] = "redirect" /\ sessions' # sessions]_vars

\* C12 witness: on MemoryStorage the launch of a login was accepted and redirected
C12_Witness ==
    \E r \in Callers :
        /\ backend = "memory" /\ Done(r) /\ outcome[r] = "redirect"
        /\ LaunchOfLogin(tok[r], st[r])

\* ---------------------------------------------------- launch config claims
\* what getLaunchConfig(Issuer, clientId, dep) answers if called in this state,
\* in the next state, and with an empty cache
Answer(clientId, dep) ==
    getLaunchConfig(backend, launchConfigCache, clients, launchConfigTable,
                    Issuer, clientId, dep, now).cfg
AnswerNext(clientId, dep) ==
    getLaunchConfig(backend', launchConfigCache', clients', launchConfigTable',
                    Issuer, clientId, dep, now').cfg
AnswerOfStore(clientId, dep) ==
    getLaunchConfig(backend, {}, clients, launchConfigTable, Issuer, clientId, dep, now).cfg
AnswerOfStoreNext(clientId, dep) ==
    getLaunchConfig(backend', {}, clients', launchConfigTable', Issuer, clientId, dep, now').cfg
\* the projection of the registered client and deployment, NoConfig without one
Projection(cl, clientId, dep) == MemoryGetLaunchConfig(cl, Issuer, clientId, dep)
AllDeployments == LookupDeployments \cup DeploymentIds
LookupBegins(r, op) == pc[r] = "idle" /\ pc'[r] = "lookup" /\ call'[r].op = op
LookupEnds(r, op) == pc[r] = "lookup" /\ pc'[r] = "idle" /\ call[r].op = op

\* C13: the three backends, each holding the registrations made so far through
\* addClient and addDeployment and nothing cached, answer every getLaunchConfig
\* alike.
C13_SameAnswers ==
    \A clientId \in ClientIds, dep \in AllDeployments :
        LET memory == MemoryGetLaunchConfig(clients, Issuer, clientId, dep)
            mysql == MySqlGetLaunchConfig({}, clients, Issuer, clientId, dep, now).cfg
            dynamo == DynamoGetLaunchConfig({}, ProjectLaunchConfigs(clients),
                                            Issuer, clientId, dep, now).cfg
        IN  memory = mysql /\ mysql = dynamo

\* C14: a getLaunchConfig call that finds nothing cached answers the exact match
\* if one is registered, else the config of deployment "default" if that is
\* registered, else undefined, on every backend.
C14_DefaultFallback ==
    [][\A r \in Callers :
          (LookupBegins(r, "getLaunchConfig") /\ launchConfigCache = {})
          => LET clientId == call'[r].key[2]
                 exact == Projection(clients, clientId, call'[r].key[3])
             IN  call'[r].val = IF exact # NoConfig THEN exact
                                ELSE Projection(clients, clientId, "default")]_vars

\* the step is an update of the one client c into c2 that changes its clientId
\* or replaces one deploymentId by another
IdentityUpdate(c, c2) ==
    /\ clients = {c} /\ clients' = {c2}
    /\ \/ c2.clientId # c.clientId
       \/ /\ c2.deployments # c.deployments
          /\ Cardinality(c2.deployments) = Cardinality(c.deployments)

\* C15: once an update that changes a client's clientId or a deployment's
\* deploymentId has completed, getLaunchConfig under an old identity no longer
\* answers the old config, and under every new identity answers the updated one.
C15_OldIdentityInvalidated ==
    [][\A c \in clients, c2 \in clients' :
          IdentityUpdate(c, c2)
          => /\ \A d \in c.deployments :
                    KeyOf(c.iss, c.clientId, d) \notin KeysOf(c2)
                    => AnswerNext(c.clientId, d) # ConfigOf(c, d)
             /\ \A d \in c2.deployments : AnswerNext(c2.clientId, d) = ConfigOf(c2, d)]_vars

\* C16: once an addClient, addDeployment, updateClient or updateDeployment made
\* while no lookup is in flight has completed, getLaunchConfig for every
\* deployment it newly registered answers the projection of the current records.
C16_RegisteredIsAnswered ==
    [][((\A r \in Callers : pc[r] = "idle") /\ clients' # clients)
          => \A c \in clients' : \A d \in c.deployments :
                 (\A c0 \in clients : KeyOf(c.iss, c.clientId, d) \notin KeysOf(c0))
                 => AnswerNext(c.clientId, d) = ConfigOf(c, d)]_vars

\* C17: once deleteClient(c) has completed, getLaunchConfig answers undefined for
\* c's clientId and every deploymentId.
C17_DeleteCascades ==
    [][\A c \in clients :
          (clients' = clients \ {c})
          => \A d \in AllDeployments : AnswerNext(c.clientId, d) = NoConfig]_vars

\* C18: in every state getLaunchConfig and getSession answer what the same
\* backend answers with nothing cached.
C18_CacheIsTransparent ==
    /\ \A clientId \in ClientIds, dep \in AllDeployments :
           Answer(clientId, dep) = AnswerOfStore(clientId, dep)
    /\ \A id \in SessionIds :
           getSession(backend, sessions, sessionCache, id, now).val
               = getSession(backend, sessions, {}, id, now).val

\* C19: what a getLaunchConfig call sets in the cache when it completes, a config
\* or a cached absence, agrees with the store at that moment, whatever
\* addClient, addDeployment, update or delete calls ran while it was in flight.
C19_CacheAgreesWithStore ==
    [][\A r \in Callers :
          LookupEnds(r, "getLaunchConfig")
          => \A w \in call[r].write : w.val = AnswerOfStoreNext(w.key[2], w.key[3])]_vars

\* --------------------------------------------------- cached absence claims
LiveEntry(cache, key) == {e \in cache : e.key = key /\ now <= e.exp}

\* C20: no entry of LAUNCH_CONFIG_CACHE outlives 15 minutes and none of
\* SESSION_CACHE 5 minutes; a getLaunchConfig or getSession call that finds no
\* live entry for its key reads the store, and one that finds a live cached
\* absence answers undefined without reading the store.
C20_MissOrCachedAbsence ==
    /\ [](\A e \in launchConfigCache : e.exp <= now + LaunchConfigCacheTtl)
    /\ [](\A e \in sessionCache : e.exp <= now + SessionCacheTtl)
    /\ [][\A r \in Callers :
             /\ (LookupBegins(r, "getLaunchConfig") /\ backend # "memory")
                => LET hit == LiveEntry(launchConfigCache, call'[r].key)
                   IN  /\ hit = {} => call'[r].reads >= 1
                       /\ (\E e \in hit : e.val = NoConfig)
                          => call'[r].val = NoConfig /\ call'[r].reads = 0
             /\ (LookupBegins(r, "getSession") /\ backend # "memory")
                => LET hit == LiveEntry(sessionCache, call'[r].key[1])
                   IN  /\ hit = {} => call'[r].reads >= 1
                       /\ (\E e \in hit : e.val = NoSession)
                          => call'[r].val = NoSession /\ call'[r].reads = 0]_vars
\* a lookup answered from a cached absence in the last instant of its life
C20_Witness ==
    \E r \in Callers :
        /\ pc[r] = "lookup" /\ call[r].op = "getLaunchConfig"
        /\ call[r].reads = 0 /\ call[r].val = NoConfig
        /\ \E e \in launchConfigCache :
               e.key = call[r].key /\ e.val = NoConfig /\ e.exp = now /\ now < horizon

\* ------------------------------------------------------ dynamic registration
\* A registration session stands for its row or item: its token and expiresAt.
setRegistrationSession(tbl, tk, expiresAt) ==
    {x \in tbl : x.id # tk} \cup {[id |-> tk, expiresAt |-> expiresAt]}

\* MySqlStorage.getRegistrationSession: WHERE id = ? AND expiresAt > now
MySqlGetRegistrationSession(tbl, tk, time) ==
    [found |-> \E x \in tbl : x.id = tk /\ x.expiresAt > time, tbl |-> tbl]

deleteRegistrationSession(tbl, tk) == {x \in tbl : x.id # tk}

\* DynamoDbStorage.getRegistrationSession: GetItem; an item whose expiresAt is
\* before now is deleted and not returned
DynamoGetRegistrationSession(tbl, tk, time) ==
    IF ~(\E x \in tbl : x.id = tk) THEN [found |-> FALSE, tbl |-> tbl]
    ELSE IF (CHOOSE x \in tbl : x.id = tk).expiresAt < time
    THEN [found |-> FALSE, tbl |-> deleteRegistrationSession(tbl, tk)]
    ELSE [found |-> TRUE, tbl |-> tbl]

getRegistrationSession(b, tbl, tk, time) ==
    IF b = "mysql" THEN MySqlGetRegistrationSession(tbl, tk, time)
    ELSE DynamoGetRegistrationSession(tbl, tk, time)

\* the backends that have registration sessions: MemoryStorage has none
RegistrationBackends == {"mysql", "dynamodb"}

InitRegistration ==
    /\ backend \in RegistrationBackends
    /\ now = 0
    /\ horizon = MaxStoreTime
    /\ nonceExpiration = DefaultNonceExpiration
    /\ stateExpiration = DefaultStateExpiration
    /\ clients = {}
    /\ launchConfigTable = {}
    /\ launchConfigCache = {}
    /\ nonces = {}
    /\ sessions = {}
    /\ sessionCache = {}
    /\ jwksCache = {}
    /\ stateTokens = {}
    /\ registrationSessions = {}
    /\ registered = [tk \in Tokens |-> [issued |-> FALSE, posted |-> 0]]
    /\ NothingBuilt
    /\ stored = {}
    /\ accepted = {}
    /\ everTrue = {}
    /\ Idle

\* what a step of the registration flow leaves alone
RegistrationFrame ==
    UNCHANGED <<backend, now, horizon, nonceExpiration, stateExpiration, sessions,
                sessionCache, jwksCache, stateTokens, svcVars, tok, st, lc, trace, replay,
                accepted, nonces, stored, arg, res, everTrue>>

\* initiateDynamicRegistration: crypto.randomUUID(), the least token not yet
\* issued standing for it, and setRegistrationSession
InitiateDynamicRegistration(tk) ==
    /\ ~registered[tk].issued
    /\ \A k \in Tokens : k < tk => registered[k].issued
    /\ registrationSessions' =
           setRegistrationSession(registrationSessions, tk, now + RegistrationSessionTtl)
    /\ registered' = [registered EXCEPT ![tk].issued = TRUE]
    /\ UNCHANGED <<clients, launchConfigTable, launchConfigCache, call, pc, outcome>>
    /\ RegistrationFrame

\* completeDynamicRegistration up to the await of getRegistrationSession:
\* without a session it throws 'Invalid or expired session'
GetRegistrationSession(r, tk) ==
    /\ pc[r] = "idle"
    /\ \A q \in Callers : q < r => pc[q] # "idle"
    /\ LET out == getRegistrationSession(backend, registrationSessions, tk, now)
       IN  /\ registrationSessions' = out.tbl
           /\ pc' = [pc EXCEPT ![r] = IF out.found THEN "delete" ELSE "answered"]
           /\ outcome' = [outcome EXCEPT ![r] = IF out.found THEN "none" ELSE "InvalidSession"]
    /\ call' = [call EXCEPT ![r] = [NoCall EXCEPT !.op = "completeDynamicRegistration",
                                                  !.key = <<tk>>]]
    /\ UNCHANGED <<clients, launchConfigTable, launchConfigCache, registered>>
    /\ RegistrationFrame

\* verifyRegistrationSession after its first await: deleteRegistrationSession
DeleteRegistrationSession(r) ==
    /\ pc[r] = "delete"
    /\ registrationSessions' = deleteRegistrationSession(registrationSessions, call[r].key[1])
    /\ pc' = [pc EXCEPT ![r] = "post"]
    /\ UNCHANGED <<clients, launchConfigTable, launchConfigCache, call, registered, outcome>>
    /\ RegistrationFrame

\* The rest of completeDynamicRegistration: the registration is posted to the
\* platform, which answers with a client_id it never gave before and with a
\* deployment_id or none; addClient, addDeployment.
PostRegistration(r, clientId, d) ==
    /\ pc[r] = "post"
    /\ ~Registered(Issuer, clientId)
    /\ registered' = [registered EXCEPT ![call[r].key[1]].posted = @ + 1]
    /\ LET c == [iss |-> Issuer, clientId |-> clientId, jwksUrl |-> "jwks1", deployments |-> {}]
           out == addDeployment(backend, addClient(clients, Issuer, clientId, "jwks1"),
                                launchConfigTable, launchConfigCache, c, d, now)
       IN  /\ clients' = out.clients
           /\ launchConfigTable' = out.table
           /\ launchConfigCache' = out.cache
    /\ pc' = [pc EXCEPT ![r] = "answered"]
    /\ outcome' = [outcome EXCEPT ![r] = "registered"]
    /\ UNCHANGED <<registrationSessions, call>>
    /\ RegistrationFrame

\* the success page or the error has been sent
AnswerRegistration(r) ==
    /\ pc[r] = "answered"
    /\ pc' = [pc EXCEPT ![r] = "idle"]
    /\ outcome' = [outcome EXCEPT ![r] = "none"]
    /\ call' = [call EXCEPT ![r] = NoCall]
    /\ UNCHANGED <<clients, launchConfigTable, launchConfigCache, regVars>>
    /\ RegistrationFrame

\* DynamoDB's TTL sweep deletes a registration session item after its ttl has passed
TtlDeleteRegistrationSession(tk) ==
    /\ backend = "dynamodb"
    /\ \E x \in registrationSessions : x.id = tk /\ x.expiresAt < now
    /\ registrationSessions' = deleteRegistrationSession(registrationSessions, tk)
    /\ UNCHANGED <<clients, launchConfigTable, launchConfigCache, call, pc, outcome, registered>>
    /\ RegistrationFrame

NextRegistration ==
    \/ \E tk \in Tokens : InitiateDynamicRegistration(tk)
    \/ \E r \in Callers, tk \in Tokens : GetRegistrationSession(r, tk)
    \/ \E r \in Callers : DeleteRegistrationSession(r)
    \/ \E r \in Callers, clientId \in ClientIds, d \in LookupDeployments :
           PostRegistration(r, clientId, d)
    \/ \E r \in Callers : AnswerRegistration(r)
    \/ Tick
    \/ Cleanup
    \/ \E tk \in Tokens : TtlDeleteRegistrationSession(tk)

SpecRegistration == InitRegistration /\ [][NextRegistration]_vars

\* ------------------------------------------------------------ session claims
\* the instant is past the session's expiry, as MySqlStorage's query has it
SessionExpired(x, t) == ~(x.expiresAt > t)

\* C21: no getSession call returns a session whose expiry has passed, from the
\* store or from SESSION_CACHE, whether or not the expired row has been deleted.
C21_ExpiredUnreadable ==
    [][\A r \in Callers :
          LookupBegins(r, "getSession")
          => call'[r].val = NoSession \/ ~SessionExpired(call'[r].val, now)]_vars

\* C22: the launches that carry one login nonce persist at most one session.
C22_OneSessionPerNonce ==
    \A n \in NonceIds : Cardinality({x \in sessions : x.nonce = n}) <= 1

\* C23: for every registration session token at most one
\* completeDynamicRegistration call obtains the session and registers with the
\* platform.
C23_ConsumedOnce == \A tk \in Tokens : registered[tk].posted <= 1

\* -------------------------------------------------------------- login claims
LoginEnds(r) == pc[r] = "idle" /\ pc'[r] = "answered" /\ call'[r].op = "handleLogin"
SecurityFailures ==
    {"InvalidSignature", "InvalidState", "ClientMismatch", "NonceMismatch", "NonceReplay"}

\* C24: handleLogin ends without a redirect URL, with the error of the missing
\* launch config, exactly when getLaunchConfig finds none for its (iss,
\* client_id, lti_deployment_id); otherwise it returns the URL with a new state;
\* the error is none of the security failures.
C24_OnlyConfigurationError ==
    [][\A r \in Callers :
          LoginEnds(r)
          => LET found == Answer(call'[r].key[2], call'[r].key[3]) # NoConfig
             IN  /\ outcome'[r] = IF found THEN "redirect" ELSE "ConfigurationError"
                 /\ outcome'[r] \notin SecurityFailures
                 /\ found <=> stateTokens' # stateTokens
                 /\ Cardinality(stateTokens' \ stateTokens) <= 1]_vars

\* C24 witness: a login for a client that is registered without the deployment
\* asked for, and without a default one, ended with the configuration error
C24_Witness ==
    \E r \in Callers :
        /\ pc[r] = "answered" /\ call[r].op = "handleLogin"
        /\ outcome[r] = "ConfigurationError"
        /\ \E c \in clients : c.clientId = call[r].key[2] /\ c.deployments = {}

\* C25: a handleLogin call writes one nonce and changes nothing else in storage
\* or in a cache.
C25_OnlyNonceWrite ==
    [][\A r \in Callers :
          LoginEnds(r)
          => /\ Cardinality(nonces' \ nonces) = 1 /\ nonces \subseteq nonces'
             /\ launchConfigCache' = launchConfigCache
             /\ UNCHANGED <<clients, launchConfigTable, sessions, sessionCache, jwksCache>>]_vars

\* ------------------------------------------------------ launch claims, continued
\* the launch of r has just run verifyLaunch as far as the check of the state
StateChecked(r) ==
    /\ pc[r] = "idle" /\ pc'[r] \in {"nonce", "done"}
    /\ \E i \in 1..Len(trace'[r]) : trace'[r][i] = "state"

C27_FirstElementCompared ==
    \A r \in Callers :
        (Submitted(r) /\ tok[r].audArray /\ lc[r] # NoConfig /\ tok[r].aud = lc[r].clientId)
        => outcome[r] # "ClientMismatch"

\* C28: once a launch has been accepted, validateNonce answers true to no later
\* launch that carries the same nonce in a different id_token.
C28_RecycledNonceRejected ==
    \A r \in Callers :
        (pc[r] = "returned" /\ res[r] = "true")
        => ~\E a \in accepted : a.tok.nonce = tok[r].nonce /\ a.tok # tok[r]

\* C29: every launch that verifyLaunch accepts carries the deployment_id of the
\* launch config it was verified against, a deployment registered for the client.
C29_DeploymentVerified ==
    \A r \in Callers :
        (pc[r] = "returned" /\ res[r] = "true")
        => /\ tok[r].dep = lc[r].deploymentId
           /\ \E c \in clients : c.clientId = lc[r].clientId /\ tok[r].dep \in c.deployments

\* a launch takes the step from the launch config to the key set
KeySetResolved(r) == pc[r] = "keys" /\ pc'[r] = "verify"

\* C30: jwksCache is keyed by jwksUrl and filled lazily.  A launch creates a
\* resolver only for the jwksUrl of its launch config and only when jwksCache
\* has none for it, and otherwise reuses the cached one; an entry is never
\* dropped or replaced; nothing else writes jwksCache; every entry is the
\* jwksUrl of a launch config of the storage.  Hence at most one resolver is
\* created per jwksUrl however the launches interleave.
C30_OneResolverPerUrl ==
    [][/\ jwksCache \subseteq jwksCache'
       /\ \A r \in Callers :
             KeySetResolved(r)
             => /\ lc[r] # NoConfig
                /\ call'[r].write = (IF lc[r].jwksUrl \in jwksCache THEN {} ELSE {lc[r].jwksUrl})
                /\ jwksCache' = jwksCache \cup {lc[r].jwksUrl}
       /\ (\A r \in Callers : ~KeySetResolved(r)) => jwksCache' = jwksCache
       /\ jwksCache' \subseteq {c.jwksUrl : c \in clients}]_vars

\* C30 witness: two launches in flight for two deployments of one client; the
\* first created the resolver of the client's jwksUrl, the second reused it
C30_Witness ==
    \E r \in Callers, p \in Callers :
        /\ pc[r] = "verify" /\ pc[p] = "verify"
        /\ lc[r] # lc[p] /\ lc[r].jwksUrl = lc[p].jwksUrl
        /\ call[r].write = {lc[r].jwksUrl} /\ call[p].write = {}

\* ------------------------------------------------------ createSession claims
Built == built.state = "built"
SimplifiedHas(v) == \E i \in 1..Len(built.roles) : built.roles[i] = v
ClaimPresent(k) ==
    \/ k = "ags" /\ payload.ags # "absent"
    \/ k = "nrps" /\ payload.nrps
    \/ k = "deepLinking" /\ payload.dl
FlagOf(k) ==
    CASE k = "ags" -> built.isAssignmentAndGradesAvailable
      [] k = "nrps" -> built.isNameAndRolesAvailable
      [] k = "deepLinking" -> built.isDeepLinkingAvailable

C32_DeduplicatedSet ==
    Built =>
        /\ \A i, j \in 1..Len(built.roles) : built.roles[i] = built.roles[j] => i = j
        /\ \A k \in 1..Len(ROLE_MAPPINGS) :
              SimplifiedHas(ROLE_MAPPINGS[k].value)
                  <=> \E i \in 1..Len(payload.roles) :
                         includes(payload.roles[i], ROLE_MAPPINGS[k].key)

\* C32 witness: two different raw roles that both contain Instructor gave the
\* one simplified role instructor
C32_Witness ==
    /\ Built /\ Len(payload.roles) = 2 /\ payload.roles[1] # payload.roles[2]
    /\ \A i \in 1..2 : includes(payload.roles[i], ROLE_MAPPINGS[1].key)
    /\ built.roles = <<"instructor">>

\* the value a claim gives: present and not the empty string
Given(x) == x.has /\ x.v # ""
FallsBackToId(x, context) ==
    IF Given(x) THEN x.v ELSE IF Given(context.id) THEN context.id.v ELSE ""

\* C33: in the built session context.label and context.title are each the
\* claim's own value if it has one, otherwise context.id if it has one,
\* otherwise the empty string.
C33_LabelAndTitleFallBack ==
    Built =>
        /\ built.context.label = FallsBackToId(payload.context.label, payload.context)
        /\ built.context.title = FallsBackToId(payload.context.title, payload.context)

\* C39: isInstructor, isStudent and isAdmin are true exactly when the
\* simplified roles hold instructor, student and admin.
C39_FlagsAgreeWithRoles ==
    Built =>
        /\ built.flags.isInstructor <=> SimplifiedHas("instructor")
        /\ built.flags.isStudent <=> SimplifiedHas("student")
        /\ built.flags.isAdmin <=> SimplifiedHas("admin")

\* C39 witness: a session for an instructor who is also an administrator and no
\* student
C39_Witness ==
    /\ Built
    /\ built.flags.isInstructor /\ built.flags.isAdmin /\ ~built.flags.isStudent
    /\ SimplifiedHas("instructor") /\ SimplifiedHas("admin")

\* ------------------------------------------------------- TokenService claims
\* C34: getBearerToken fails with TokenRequestFailed whenever the endpoint
\* answered with a non-2xx status, with TokenResponseMalformed whenever a 2xx
\* answer has no access_token, and returns the access_token otherwise.
C34_FailureKinds ==
    bearer # "none" =>
        bearer = IF ~ResponseOk(response) THEN "TokenRequestFailed"
                 ELSE IF response.body # "token" THEN "TokenResponseMalformed"
                 ELSE "access_token"

\* C35: every client assertion carries exp = iat + 300, iss = sub = clientId
\* and aud = tokenUrl.
C35_ExpIsIatPlus300 ==
    assertion.state = "built" =>
        /\ assertion.exp = assertion.iat + AssertionLifetime
        /\ assertion.iss = assertion.sub
        /\ assertion.iss \in TokenClients /\ assertion.aud \in TokenUrls

\* ------------------------------------------------------ MemoryStorage claims
\* C36: in MemoryStorage every stored nonce is eventually removed once it has
\* expired, whether or not a caller looks it up.
C36_ExpiredEventuallyRemoved ==
    \A n \in NonceIds :
        (backend = "memory" /\ HasRow(nonces, n) /\ RowOf(nonces, n).expiresAt < now)
            ~> ~HasRow(nonces, n)

\* ------------------------------------------------------- two-instance claims
\* C37: a launch config that getLaunchConfig of a storage instance returns is
\* the config of a client and deployment registered in that instance's own
\* store; clients are only added here, so none it registered has gone.
C37_OwnStoreOnly ==
    [][\A r \in Callers, inst \in Instances :
          (call'[r] # call[r] /\ call'[r].op = inst /\ call'[r].val # NoConfig)
          => \E c \in ClientsOf(inst) :
                /\ c.clientId = call'[r].val.clientId
                /\ call'[r].val.deploymentId \in c.deployments
                /\ c.jwksUrl = call'[r].val.jwksUrl]_vars

\* --------------------------------------------------------- launch route
\* the characters of a client id
Chars(id) == IF id = "c1" THEN <<"c", "1">> ELSE <<"c", "2">>

\* the message of the error verifyLaunch or createSession ends with, for a
\* launch of id_token t that ended with outcome kind
ErrorMessage(kind, t) ==
    CASE kind = "NoIssuer" -> <<"N", "o", " ", "i", "s", "s", "u", "e", "r", " ", "i", "n", " ", "t", "o", "k", "e", "n">>
      [] kind = "ConfigurationError" -> <<"N", "o", " ", "v", "a", "l", "i", "d", " ", "l", "a", "u", "n", "c", "h", " ", "c", "o", "n", "f", "i", "g", " ", "f", "o", "u", "n", "d">>
      [] kind \in {"InvalidSignature", "InvalidState"} ->
            <<"s", "i", "g", "n", "a", "t", "u", "r", "e", " ", "v", "e", "r", "i", "f", "i", "c", "a", "t", "i", "o", "n", " ", "f", "a", "i", "l", "e", "d">>
      [] kind = "ClientMismatch" ->
            <<"I", "n", "v", "a", "l", "i", "d", " ", "c", "l", "i", "e", "n", "t", "_", "i", "d", ":", " ", "e", "x", "p", "e", "c", "t", "e", "d", " ">>
                \o Chars(t.aud) \o <<",", " ", "g", "o", "t", " ">> \o Chars(t.aud)
      [] kind = "NonceMismatch" -> <<"N", "o", "n", "c", "e", " ", "m", "i", "s", "m", "a", "t", "c", "h">>
      [] kind = "NonceReplay" ->
            <<"N", "o", "n", "c", "e", " ", "h", "a", "s", " ", "a", "l", "r", "e", "a", "d", "y", " ", "b", "e", "e", "n", " ", "u", "s", "e", "d", " ", "o", "r", " ", "e", "x", "p", "i", "r", "e", "d">>
      [] kind = "InvalidUrl" -> <<"I", "n", "v", "a", "l", "i", "d", " ", "U", "R", "L">>
      [] OTHER -> <<>>

\* a failed schema parse throws a ZodError
IsZodError(kind) == kind = "SchemaValidationError"

\* launchRouteHandler: the status of the answer to a launch that ended with
\* outcome kind
launchRouteHandler(kind, t) ==
    IF kind = "redirect" THEN 302
    ELSE IF IsZodError(kind) THEN 400
    ELSE IF \/ includes(ErrorMessage(kind, t), <<"n", "o", "n", "c", "e">>)
            \/ includes(ErrorMessage(kind, t), <<"C", "l", "i", "e", "n", "t">>)
         THEN 401
    ELSE 500

\* C38: the launch route answers a launch that verifyLaunch rejected for a
\* nonce mismatch, a replayed or expired nonce or a client-id mismatch with
\* 401, one with malformed parameters with 400, and only other failures
\* with 500.
C38_FailuresMappedByKind ==
    \A r \in Callers :
        Done(r) /\ Failed(r) =>
            launchRouteHandler(outcome[r], tok[r]) =
                IF outcome[r] \in {"NonceMismatch", "NonceReplay", "ClientMismatch"} THEN 401
                ELSE IF outcome[r] = "SchemaValidationError" THEN 400
                ELSE 500

\* ------------------------------------------- MemoryStorage: clients, deployments
MaxUuids == 4

\* the values crypto.randomUUID hands out, in order; none is a deploymentId
Uuids == <<"u1", "u2", "u3", "u4">>
randomUUID(n) == Uuids[n + 1]
InternalIds == {Uuids[i] : i \in 1..MaxUuids}

\* Map.prototype.has / get / set / delete on a set of [key, value] entries
MapHas(map, key) == \E e \in map : e.key = key
MapGet(map, key) == (CHOOSE e \in map : e.key = key).value
MapDelete(map, key) == {e \in map : e.key # key}
MapSet(map, key, value) == MapDelete(map, key) \cup {[key |-> key, value |-> value]}

\* `${client.iss}#${client.clientId}#${x}`
compositeKey(client, x) == <<client.iss, client.clientId, x>>

\* undefined, where a deployment is expected
NoDeployment == [id |-> "undefined", deploymentId |-> "undefined"]

InitMemory == InitAdmin /\ backend = "memory"

MemoryFrame ==
    UNCHANGED <<storeVars, launchConfigCache, sessions, sessionCache, jwksCache, stateTokens,
                registrationSessions, registered, sessVars, tokVars, instVars, launchVars,
                nonces, stored, pc, arg, res, everTrue>>

\* MemoryStorage.addClient
MemoryAddClient(iss, clientId) ==
    /\ uuids < MaxUuids
    /\ LET id == randomUUID(uuids)
           clientWithId == [id |-> id, iss |-> iss, clientId |-> clientId,
                            deployments |-> <<>>]
       IN  /\ memoryClients' = MapSet(memoryClients, id, clientWithId)
           /\ clientLookup' = MapSet(clientLookup, <<iss, clientId>>, id)
    /\ uuids' = uuids + 1
    /\ UNCHANGED <<deployments, fetched>>
    /\ MemoryFrame

\* MemoryStorage.addDeployment; for an unknown client it throws
MemoryAddDeployment(clientId, deploymentId) ==
    /\ uuids < MaxUuids
    /\ MapHas(memoryClients, clientId)
    /\ LET client == MapGet(memoryClients, clientId)
           deploymentWithId == [id |-> randomUUID(uuids), deploymentId |-> deploymentId]
       IN  /\ memoryClients' =
                  MapSet(memoryClients, clientId,
                         [client EXCEPT !.deployments = Append(@, deploymentWithId)])
           /\ deployments' =
                  MapSet(deployments, compositeKey(client, deploymentId), deploymentWithId)
    /\ uuids' = uuids + 1
    /\ UNCHANGED <<clientLookup, fetched>>
    /\ MemoryFrame

\* the deployments map after the loop of deleteClient
CleanUpDeployments(map, client) ==
    {e \in map : \A i \in 1..Len(client.deployments) :
                    e.key # compositeKey(client, client.deployments[i].id)}

\* MemoryStorage.deleteClient
MemoryDeleteClient(clientId) ==
    /\ IF MapHas(memoryClients, clientId)
       THEN LET client == MapGet(memoryClients, clientId)
            IN  /\ deployments' = CleanUpDeployments(deployments, client)
                /\ clientLookup' = MapDelete(clientLookup, <<client.iss, client.clientId>>)
       ELSE UNCHANGED <<deployments, clientLookup>>
    /\ memoryClients' = MapDelete(memoryClients, clientId)
    /\ UNCHANGED <<uuids, fetched>>
    /\ MemoryFrame

\* MemoryStorage.getDeployment
getDeployment(cl, map, clientId, deploymentId) ==
    IF ~MapHas(cl, clientId) THEN NoDeployment
    ELSE LET key == compositeKey(MapGet(cl, clientId), deploymentId)
         IN  IF MapHas(map, key) THEN MapGet(map, key) ELSE NoDeployment

MemoryGetDeployment(clientId, deploymentId) ==
    /\ fetched' = [state |-> "returned", clientId |-> clientId, deploymentId |-> deploymentId,
                 val |-> getDeployment(memoryClients, deployments, clientId, deploymentId)]
    /\ UNCHANGED <<memoryClients, deployments, clientLookup, uuids>>
    /\ MemoryFrame

NextMemory ==
    \/ \E c \in ClientIds : MemoryAddClient(Issuer, c)
    \/ \E id \in InternalIds, d \in DeploymentIds : MemoryAddDeployment(id, d)
    \/ \E id \in InternalIds : MemoryDeleteClient(id)
    \/ \E id \in InternalIds, d \in DeploymentIds : MemoryGetDeployment(id, d)

SpecMemory == InitMemory /\ [][NextMemory]_vars

\* the deployments a stored client lists
Listed(dep) ==
    \E c \in memoryClients :
        \E i \in 1..Len(c.value.deployments) : c.value.deployments[i] = dep

\* C40: in MemoryStorage no entry of a deleted client remains in the
\* deployment index: every entry is a deployment that a stored client lists,
\* and getDeployment returns absent or such a deployment.
C40_DeletedClientLeavesNoEntry ==
    /\ \A e \in deployments : Listed(e.value)
    /\ fetched.state = "returned" /\ fetched.val # NoDeployment => Listed(fetched.val)

====
